---- MODULE Spec2Model ----
(***************************************************************************)
(* Model of TableDeployer.parse_sql_statements                             *)
(* (src/jenkins/deployment/deploy_tables.py, lines 136-177) and of the     *)
(* drivers around it.                                                      *)
(*                                                                         *)
(* A text is a sequence of one-character strings.  The splitter is         *)
(* modelled twice from the same step operators: as a state machine that    *)
(* processes the input one line per step (so that the mode flags can be    *)
(* observed after every line), and as the operator parse_sql_statements    *)
(* (so that the function can be applied to its own output).                *)
(*                                                                         *)
(* Each driver is a state machine of its own, with its own specification,  *)
(* and keeps its state in one record:                                      *)
(*   deploy     TableDeployer.deploy_schema_tables      (DeploySpec)       *)
(*   etl        RetailWorksETL.run_full_etl_pipeline    (EtlSpec)          *)
(*   rollback   DeploymentRollback.execute_rollback     (RollbackSpec)     *)
(*   envdeploy  deploy_full_environment.py main         (EnvSpec)          *)
(*   deploy_all TableDeployer.deploy_all_schemas        (DeployerSpec)     *)
(*   warehouse  RetailWorksETL.update_dimensional_tables (DimSpec)         *)
(* In a specification the records of the other drivers stay at rest.       *)
(***************************************************************************)
EXTENDS Integers, Sequences, FiniteSets, TLC

VARIABLES
    sql_text,           \* the argument passed to parse_sql_statements
    sql_content,        \* the text after comment removal (lines 139-140)
    lines,              \* sql_content.split('\n') (line 148)
    n,                  \* number of lines the for loop has processed
    current_statement,  \* the accumulated buffer
    in_string,          \* the flag of line 145
    in_procedure,       \* the flag of line 146
    statements,         \* the list that is returned
    pc,                 \* "start", "loop" or "done"
    deploy,             \* one call of deploy_schema_tables
    etl,                \* one call of run_full_etl_pipeline
    rollback,           \* one call of execute_rollback
    envdeploy,          \* one run of deploy_full_environment.py
    deploy_all,         \* one call of deploy_all_schemas
    warehouse           \* the tables update_dimensional_tables reads and writes

vars == <<sql_text, sql_content, lines, n, current_statement, in_string,
          in_procedure, statements, pc, deploy, etl, rollback, envdeploy,
          deploy_all, warehouse>>

\* the state of the drivers
drivers == <<deploy, etl, rollback, envdeploy, deploy_all, warehouse>>

\* the state of the splitter
splitter == <<sql_text, sql_content, lines, n, current_statement, in_string,
              in_procedure, statements, pc>>

-----------------------------------------------------------------------------
(* Characters and string primitives of Python used by the function.        *)

NL == "\n"

SEMI == ";"

\* the characters str.strip() removes that a string can hold: the space,
\* \t, \n, \f, \r, then U+000B, U+001C to U+001F, U+0085, U+00A0 and
\* U+1680 (str.strip() also removes the Unicode spaces U+2000 to U+200A,
\* U+2028, U+2029, U+202F, U+205F and U+3000, which no string holds)
Whitespace ==
    {" ", "\t", "\n", "\f", "\r",
     "", "", "", "", "", "", " ", " "}

\* the literal of line 154
PROCEDURE_MARKER ==
    <<"C","R","E","A","T","E"," ","O","R"," ","R","E","P","L","A","C","E",
      " ","P","R","O","C","E","D","U","R","E">>

\* the literal of line 156
BODY_END == <<"$","$",";">>

LowerLetters ==
    <<"a","b","c","d","e","f","g","h","i","j","k","l","m",
      "n","o","p","q","r","s","t","u","v","w","x","y","z">>

UpperLetters ==
    <<"A","B","C","D","E","F","G","H","I","J","K","L","M",
      "N","O","P","Q","R","S","T","U","V","W","X","Y","Z">>

\* str.upper() on one character
UpperChar(c) ==
    IF \E k \in 1..Len(LowerLetters) : LowerLetters[k] = c
    THEN UpperLetters[CHOOSE k \in 1..Len(LowerLetters) : LowerLetters[k] = c]
    ELSE c

\* str.upper()
Upper(s) == [i \in 1..Len(s) |-> UpperChar(s[i])]

\* str.lower() on one character
LowerChar(c) ==
    IF \E k \in 1..Len(UpperLetters) : UpperLetters[k] = c
    THEN LowerLetters[CHOOSE k \in 1..Len(UpperLetters) : UpperLetters[k] = c]
    ELSE c

\* str.lower()
Lower(s) == [i \in 1..Len(s) |-> LowerChar(s[i])]

\* s[i:i+len(pat)] == pat
MatchAt(s, i, pat) ==
    /\ i >= 1
    /\ i + Len(pat) - 1 <= Len(s)
    /\ \A k \in 1..Len(pat) : s[i + k - 1] = pat[k]

\* pat in s
Contains(s, pat) == \E i \in 1..(Len(s) - Len(pat) + 1) : MatchAt(s, i, pat)

\* s.endswith(pat)
EndsWith(s, pat) == MatchAt(s, Len(s) - Len(pat) + 1, pat)

\* s.strip()
Strip(s) ==
    IF \A i \in 1..Len(s) : s[i] \in Whitespace
    THEN << >>
    ELSE LET first == CHOOSE i \in 1..Len(s) :
                          /\ s[i] \notin Whitespace
                          /\ \A k \in 1..(i - 1) : s[k] \in Whitespace
             last  == CHOOSE i \in 1..Len(s) :
                          /\ s[i] \notin Whitespace
                          /\ \A k \in (i + 1)..Len(s) : s[k] \in Whitespace
         IN  SubSeq(s, first, last)

\* s.split(c) for a one-character separator c
RECURSIVE Split(_, _)
Split(s, c) ==
    IF \A i \in 1..Len(s) : s[i] # c
    THEN << s >>
    ELSE LET i == CHOOSE i \in 1..Len(s) :
                      /\ s[i] = c
                      /\ \A k \in 1..(i - 1) : s[k] # c
         IN  << SubSeq(s, 1, i - 1) >> \o Split(SubSeq(s, i + 1, Len(s)), c)

-----------------------------------------------------------------------------
(* Comment removal, lines 139-140.                                         *)

\* the first position after i at which pat occurs in s, Len(s) + 1 when
\* there is none: where the scan of re.sub tries its next match
NextAt(s, i, pat) ==
    IF \E m \in (i + 1)..Len(s) : MatchAt(s, m, pat)
    THEN CHOOSE m \in (i + 1)..Len(s) :
             /\ MatchAt(s, m, pat)
             /\ \A k \in (i + 1)..(m - 1) : ~MatchAt(s, k, pat)
    ELSE Len(s) + 1

\* re.sub(r'--.*?\n', '\n', s): a match starts at the leftmost "--" that has
\* a newline somewhere after it and runs through the first such newline; the
\* scan resumes after the match.  A "--" with no newline after it matches
\* nothing and is copied, as is everything up to the next "--".
RECURSIVE SubLineComments(_, _)
SubLineComments(s, i) ==
    IF i > Len(s) THEN << >>
    ELSE IF /\ MatchAt(s, i, <<"-","-">>)
            /\ \E j \in (i + 2)..Len(s) : s[j] = NL
         THEN LET j == CHOOSE j \in (i + 2)..Len(s) :
                           /\ s[j] = NL
                           /\ \A k \in (i + 2)..(j - 1) : s[k] # NL
              IN  << NL >> \o SubLineComments(s, j + 1)
         ELSE LET m == NextAt(s, i, <<"-","-">>)
              IN  SubSeq(s, i, m - 1) \o SubLineComments(s, m)

\* SubBlockComments with an unterminated "/*" consuming to the end of the text
RECURSIVE SubBlockCommentsToEnd(_, _)
SubBlockCommentsToEnd(s, i) ==
    IF i > Len(s) THEN << >>
    ELSE IF MatchAt(s, i, <<"/","*">>)
         THEN IF \E j \in (i + 2)..Len(s) : MatchAt(s, j, <<"*","/">>)
              THEN LET j == CHOOSE j \in (i + 2)..Len(s) :
                                /\ MatchAt(s, j, <<"*","/">>)
                                /\ \A k \in (i + 2)..(j - 1) :
                                       ~MatchAt(s, k, <<"*","/">>)
                   IN  SubBlockCommentsToEnd(s, j + 2)
              ELSE << >>
         ELSE LET m == NextAt(s, i, <<"/","*">>)
              IN  SubSeq(s, i, m - 1) \o SubBlockCommentsToEnd(s, m)

\* re.sub(r'/\*.*?\*/', '', s, flags=re.DOTALL): a match starts at the
\* leftmost "/*" that has a "*/" starting at least two characters later and
\* runs through the first such "*/"; it is replaced by the empty string.
\* What lies before the next "/*" is copied.
RECURSIVE SubBlockComments(_, _)
SubBlockComments(s, i) ==
    IF i > Len(s) THEN << >>
    ELSE IF /\ MatchAt(s, i, <<"/","*">>)
            /\ \E j \in (i + 2)..Len(s) : MatchAt(s, j, <<"*","/">>)
         THEN LET j == CHOOSE j \in (i + 2)..Len(s) :
                           /\ MatchAt(s, j, <<"*","/">>)
                           /\ \A k \in (i + 2)..(j - 1) :
                                  ~MatchAt(s, k, <<"*","/">>)
              IN  SubBlockComments(s, j + 2)
         ELSE LET m == NextAt(s, i, <<"/","*">>)
              IN  SubSeq(s, i, m - 1) \o SubBlockComments(s, m)

\* lines 139-140 together
RemoveComments(s) == SubBlockComments(SubLineComments(s, 1), 1)

-----------------------------------------------------------------------------
(* The loop body, lines 150-171, on the record                             *)
(*   [current_statement, in_procedure, statements].                       *)

\* ProcedureMode with any line that ends in ';' ending procedure mode
ProcedureModeUntilSemicolon(in_proc, line) ==
    LET stripped_line == Strip(line)
    IN  IF Contains(Upper(stripped_line), PROCEDURE_MARKER) THEN TRUE
        ELSE IF in_proc /\ EndsWith(stripped_line, << SEMI >>) THEN FALSE
        ELSE in_proc

\* ProcedureMode with a line that ends in '$$' ending procedure mode
ProcedureModeEndsAtDollars(in_proc, line) ==
    LET stripped_line == Strip(line)
    IN  IF Contains(Upper(stripped_line), PROCEDURE_MARKER) THEN TRUE
        ELSE IF in_proc /\ EndsWith(stripped_line, << "$", "$" >>) THEN FALSE
        ELSE in_proc

\* lines 153-157: the mode after looking at one line
ProcedureMode(in_proc, line) ==
    LET stripped_line == Strip(line)
    IN  IF Contains(Upper(stripped_line), PROCEDURE_MARKER) THEN TRUE
        ELSE IF in_proc /\ EndsWith(stripped_line, BODY_END) THEN FALSE
        ELSE in_proc

\* CompleteStatements with the strip() of line 169 forgotten
UnstrippedStatements(parts) ==
    SelectSeq(parts, LAMBDA part : Strip(part) # << >>)

\* lines 167-169: the non-blank parts, stripped, in order
RECURSIVE CompleteStatements(_)
CompleteStatements(parts) ==
    IF parts = << >> THEN << >>
    ELSE IF Strip(Head(parts)) # << >>
         THEN << Strip(Head(parts)) >> \o CompleteStatements(Tail(parts))
         ELSE CompleteStatements(Tail(parts))

\* LoopBody with the newline of line 159 forgotten
LoopBodyNoNewline(st, line, instr) ==
    LET in_proc == ProcedureMode(st.in_procedure, line)
        current == st.current_statement \o line
    IN  IF Contains(line, << SEMI >>) /\ ~in_proc /\ ~instr
        THEN LET parts == Split(current, SEMI)
             IN  [current_statement |-> parts[Len(parts)],
                  in_procedure      |-> in_proc,
                  statements        |-> st.statements \o
                      CompleteStatements(SubSeq(parts, 1, Len(parts) - 1))]
        ELSE [current_statement |-> current,
              in_procedure      |-> in_proc,
              statements        |-> st.statements]

\* LoopBody with the buffer emptied after a split instead of line 171
LoopBodyDropsRest(st, line, instr) ==
    LET in_proc == ProcedureMode(st.in_procedure, line)
        current == st.current_statement \o line \o << NL >>
    IN  IF Contains(line, << SEMI >>) /\ ~in_proc /\ ~instr
        THEN LET parts == Split(current, SEMI)
             IN  [current_statement |-> << >>,
                  in_procedure      |-> in_proc,
                  statements        |-> st.statements \o
                      CompleteStatements(SubSeq(parts, 1, Len(parts) - 1))]
        ELSE [current_statement |-> current,
              in_procedure      |-> in_proc,
              statements        |-> st.statements]

\* LoopBody with split(';', 1) in line 164: only the first ';' is a boundary
LoopBodySplitOnce(st, line, instr) ==
    LET in_proc == ProcedureMode(st.in_procedure, line)
        current == st.current_statement \o line \o << NL >>
    IN  IF Contains(line, << SEMI >>) /\ ~in_proc /\ ~instr
        THEN LET i == CHOOSE i \in 1..Len(current) :
                          /\ current[i] = SEMI
                          /\ \A k \in 1..(i - 1) : current[k] # SEMI
             IN  [current_statement |-> SubSeq(current, i + 1, Len(current)),
                  in_procedure      |-> in_proc,
                  statements        |-> st.statements \o
                      CompleteStatements(<< SubSeq(current, 1, i - 1) >>)]
        ELSE [current_statement |-> current,
              in_procedure      |-> in_proc,
              statements        |-> st.statements]

\* LoopBody that takes no ';' for a boundary on a line holding a quote
LoopBodyQuoteAware(st, line, instr) ==
    LET in_proc == ProcedureMode(st.in_procedure, line)
        current == st.current_statement \o line \o << NL >>
    IN  IF Contains(line, << SEMI >>) /\ ~in_proc /\ ~Contains(line, << "'" >>)
        THEN LET parts == Split(current, SEMI)
             IN  [current_statement |-> parts[Len(parts)],
                  in_procedure      |-> in_proc,
                  statements        |-> st.statements \o
                      CompleteStatements(SubSeq(parts, 1, Len(parts) - 1))]
        ELSE [current_statement |-> current,
              in_procedure      |-> in_proc,
              statements        |-> st.statements]

\* lines 151-171: one iteration of the for loop
LoopBody(st, line, instr) ==
    LET in_proc == ProcedureMode(st.in_procedure, line)
        current == st.current_statement \o line \o << NL >>
    IN  IF Contains(line, << SEMI >>) /\ ~in_proc /\ ~instr
        THEN LET parts == Split(current, SEMI)
             IN  IF Len(parts) > 1
                 THEN [current_statement |-> parts[Len(parts)],
                       in_procedure      |-> in_proc,
                       statements        |-> st.statements \o
                           CompleteStatements(SubSeq(parts, 1, Len(parts) - 1))]
                 ELSE [current_statement |-> current,
                       in_procedure      |-> in_proc,
                       statements        |-> st.statements]
        ELSE [current_statement |-> current,
              in_procedure      |-> in_proc,
              statements        |-> st.statements]

\* AddRemaining with lines 174-175 forgotten
AddRemainingForgotten(st) == st.statements

\* lines 173-177: the remaining buffer and the returned list
AddRemaining(st) ==
    IF Strip(st.current_statement) # << >>
    THEN st.statements \o << Strip(st.current_statement) >>
    ELSE st.statements

\* lines 143-146: the locals before the loop
InitialLocals ==
    [current_statement |-> << >>, in_procedure |-> FALSE, statements |-> << >>]

\* lines 150-171 over a list of lines, from the record st
RECURSIVE ForLines(_, _)
ForLines(st, ls) ==
    IF ls = << >> THEN st
    ELSE ForLines(LoopBody(st, Head(ls), FALSE), Tail(ls))

\* the whole function, lines 136-177
parse_sql_statements(text) ==
    AddRemaining(ForLines(InitialLocals, Split(RemoveComments(text), NL)))

-----------------------------------------------------------------------------
(* Inputs.                                                                 *)

\* the number of fragments an enumerated input is made of
MaxFrags == 4

\* the pieces the enumerated inputs are concatenated from
Fragments ==
    { PROCEDURE_MARKER, BODY_END, << SEMI >>, << NL >>, << " " >>, << "a" >>,
      <<"-","-">>, <<"/","*">>, <<"*","/">> }

RECURSIVE Flatten(_)
Flatten(ss) == IF ss = << >> THEN << >> ELSE Head(ss) \o Flatten(Tail(ss))

EnumeratedInputs ==
    UNION { { Flatten(fs) : fs \in [1..k -> Fragments] } : k \in 0..MaxFrags }

\* 'CREATE OR REPLACE PROCEDURE foo() ... BEGIN ... stmt1; stmt2; ... END;\n$$;\nSELECT 1;'
ProcedureScenario ==
    PROCEDURE_MARKER \o
    <<" ","f","o","o","(",")"," ",".",".","."," ","B","E","G","I","N"," ",
      ".",".","."," ","s","t","m","t","1",";"," ","s","t","m","t","2",";",
      " ",".",".","."," ","E","N","D",";","\n","$","$",";","\n","S","E","L",
      "E","C","T"," ","1",";">>

\* two procedure bodies, the second with a lower-case marker, an ordinary
\* statement after each
TwoProceduresScenario ==
    PROCEDURE_MARKER \o
    <<" ","p","\n","x",";","\n","$","$",";","\n","a",";","\n">> \o
    <<"c","r","e","a","t","e"," ","o","r"," ","r","e","p","l","a","c","e",
      " ","p","r","o","c","e","d","u","r","e">> \o
    <<" ","q","\n","y",";","\n","$","$",";","\n","b",";">>

\* 'CREATE OR REPLACE PROCEDURE p(); x;\n$$;'
ShortProcedureScenario ==
    PROCEDURE_MARKER \o
    <<" ","p","(",")",";"," ","x",";","\n","$","$",";">>

\* 'CREATE SCHEMA A;\nCREATE SCHEMA B;\n'
SchemaScenario ==
    <<"C","R","E","A","T","E"," ","S","C","H","E","M","A"," ","A",";","\n",
      "C","R","E","A","T","E"," ","S","C","H","E","M","A"," ","B",";","\n">>

\* 'SELECT 1; -- c'
TrailingCommentScenario ==
    <<"S","E","L","E","C","T"," ","1",";"," ","-","-"," ","c">>

\* 'SELECT 1; -- c;d\nSELECT 2;'
TrailingCommentNewlineScenario ==
    <<"S","E","L","E","C","T"," ","1",";"," ","-","-"," ","c",";","d","\n",
      "S","E","L","E","C","T"," ","2",";">>

\* 'CREATE TABLE T (/* col comment */ID INT);'
BlockCommentScenario ==
    <<"C","R","E","A","T","E"," ","T","A","B","L","E"," ","T"," ","(","/",
      "*"," ","c","o","l"," ","c","o","m","m","e","n","t"," ","*","/","I",
      "D"," ","I","N","T",")",";">>

\* 'SELECT/* c */1;'
JoinedTokensScenario ==
    <<"S","E","L","E","C","T","/","*"," ","c"," ","*","/","1",";">>

\* "INSERT INTO T VALUES ('a;b');"
StringLiteralScenario ==
    <<"I","N","S","E","R","T"," ","I","N","T","O"," ","T"," ","V","A","L",
      "U","E","S"," ","(","'","a",";","b","'",")",";">>

\* 'a;\nb\nCREATE OR REPLACE PROCEDURE p\nx;\n$$\ny;'
UnterminatedProcedureScenario ==
    <<"a",";","\n","b","\n">> \o PROCEDURE_MARKER \o
    <<" ","p","\n","x",";","\n","$","$","\n","y",";">>

\* a form feed before and after a semicolon
FormFeedScenario == <<"\f",";","\f","a">>

Scenarios ==
    { ProcedureScenario, TwoProceduresScenario, ShortProcedureScenario,
      SchemaScenario, TrailingCommentScenario, TrailingCommentNewlineScenario,
      BlockCommentScenario, JoinedTokensScenario, StringLiteralScenario,
      UnterminatedProcedureScenario, FormFeedScenario }

Inputs == EnumeratedInputs \cup Scenarios

\* the inputs of the runs whose ending is checked: fewer fragments, and
\* texts of a bounded length
MaxFairFrags == 2

MaxFairLen == 27

FairInputs ==
    { t \in UNION { { Flatten(fs) : fs \in [1..k -> Fragments] } :
                        k \in 0..MaxFairFrags } : Len(t) <= MaxFairLen }

-----------------------------------------------------------------------------
(* The state machine: one call of parse_sql_statements.                    *)

\* no call of deploy_schema_tables is under way
DeployAtRest ==
    [pc |-> "idle", conn |-> FALSE, schema_name |-> << >>,
     file_exists |-> FALSE, file_readable |-> FALSE,
     schema_suffix |-> << >>,
     sql_content |-> << >>, statements |-> << >>,
     i |-> 0, in_flight |-> 0, issued |-> << >>, completed |-> << >>,
     warnings |-> << >>]

\* no call of run_full_etl_pipeline is under way
EtlAtRest ==
    [pc |-> "idle", table_names |-> << >>, i |-> 0, outcomes |-> << >>,
     pipeline_results |-> << >>, log |-> << >>, update_calls |-> 0]

\* no call of execute_rollback is under way
RollbackAtRest ==
    [pc |-> "idle", environment |-> "dev", version |-> "v1.0.0",
     available_versions |-> {}, i |-> 0, started |-> << >>,
     returned |-> << >>, failed_steps |-> << >>, backed_up |-> << >>,
     backup_queries_ok |-> TRUE, dropped |-> << >>, truncated |-> << >>,
     history |-> << >>, result |-> FALSE]

\* deploy_full_environment.py is not running
EnvDeployAtRest ==
    [pc |-> "idle", environment |-> "dev", load_sample_data |-> FALSE,
     skip_tests |-> FALSE, env_vars_set |-> FALSE, connection |-> FALSE,
     steps |-> << >>, i |-> 0, executed |-> << >>, failed_steps |-> << >>,
     closed |-> FALSE, exit_code |-> 0]

\* no call of deploy_all_schemas is under way
DeployAllAtRest ==
    [pc |-> "idle", i |-> 0, attempted |-> << >>, calls |-> << >>,
     deployment_results |-> << >>]

\* the values of CUSTOMER_ID in CUSTOMERS and of PRODUCT_ID in PRODUCTS
CustomerIds == {"c1"}

ProductIds == {"p1"}

\* the columns a MERGE compares (lines 221-224 and 271-274), as one value
TrackedValues == {"a", "b"}

\* no row with the id
NoRow == "none"

\* the rows a dimension table can hold, of the columns the MERGE reads
DimRows(ids) == [ID : ids, TRACKED : TrackedValues, IS_CURRENT : BOOLEAN]

\* a table without rows: how many copies of each row it holds
EmptyTable(ids) == [r \in DimRows(ids) |-> 0]

\* the source tables and the dimension tables before anything is loaded:
\* for CUSTOMERS and PRODUCTS the row of each id, for the tables of the
\* LEFT JOINs the number of rows with the key the source rows refer to, for
\* the dimension tables the number of copies of each row; no call of
\* update_dimensional_tables is under way
WarehouseAtRest ==
    [pc |-> "idle", strict |-> FALSE, runs |-> 0,
     customers |-> [c \in CustomerIds |-> NoRow],
     customer_segments |-> 0, addresses |-> 0,
     customer_dim |-> EmptyTable(CustomerIds),
     products |-> [p \in ProductIds |-> NoRow],
     categories |-> 0, suppliers |-> 0,
     product_dim |-> EmptyTable(ProductIds),
     duplicate_source |-> FALSE]

DriversAtRest ==
    /\ deploy = DeployAtRest
    /\ etl = EtlAtRest
    /\ rollback = RollbackAtRest
    /\ envdeploy = EnvDeployAtRest
    /\ deploy_all = DeployAllAtRest
    /\ warehouse = WarehouseAtRest

\* the state at the call of parse_sql_statements(sql_content)
Called(inputs) ==
    /\ sql_text \in inputs
    /\ DriversAtRest
    /\ sql_content = << >>
    /\ lines = << >>
    /\ n = 0
    /\ current_statement = << >>
    /\ in_string = FALSE
    /\ in_procedure = FALSE
    /\ statements = << >>
    /\ pc = "start"

Init == Called(Inputs)

FairInit == Called(FairInputs)

\* lines 138-148: comment removal, the locals, the split into lines
Preprocess ==
    /\ pc = "start"
    /\ sql_content' = RemoveComments(sql_text)
    /\ lines' = Split(sql_content', NL)
    /\ statements' = InitialLocals.statements
    /\ current_statement' = InitialLocals.current_statement
    /\ in_string' = FALSE
    /\ in_procedure' = InitialLocals.in_procedure
    /\ n' = 0
    /\ pc' = "loop"
    /\ UNCHANGED <<sql_text, drivers>>

\* lines 150-171: the loop body on the next line
ProcessLine ==
    /\ pc = "loop"
    /\ n < Len(lines)
    /\ LET st == LoopBody([current_statement |-> current_statement,
                           in_procedure      |-> in_procedure,
                           statements        |-> statements],
                          lines[n + 1], in_string)
       IN  /\ current_statement' = st.current_statement
           /\ in_procedure' = st.in_procedure
           /\ statements' = st.statements
    /\ n' = n + 1
    /\ UNCHANGED <<sql_text, sql_content, lines, in_string, pc, drivers>>

\* Return with a loop that is never left
ReturnNeverReached ==
    /\ pc = "loop"
    /\ n > Len(lines)
    /\ statements' = AddRemaining([current_statement |-> current_statement,
                                   in_procedure      |-> in_procedure,
                                   statements        |-> statements])
    /\ pc' = "done"
    /\ UNCHANGED <<sql_text, sql_content, lines, n, current_statement,
                   in_string, in_procedure, drivers>>

\* lines 173-177: the loop is over, the remaining buffer is added
Return ==
    /\ pc = "loop"
    /\ n = Len(lines)
    /\ statements' = AddRemaining([current_statement |-> current_statement,
                                   in_procedure      |-> in_procedure,
                                   statements        |-> statements])
    /\ pc' = "done"
    /\ UNCHANGED <<sql_text, sql_content, lines, n, current_statement,
                   in_string, in_procedure, drivers>>

Next == Preprocess \/ ProcessLine \/ Return

Spec == Init /\ [][Next]_vars

\* the call runs to its end: a step that can be taken is taken
FairSpec == FairInit /\ [][Next]_vars /\ WF_vars(Next)

-----------------------------------------------------------------------------
(* Vocabulary of the properties.                                           *)

\* line 154 as a predicate on a line
IsMarkerLine(l) == Contains(Upper(Strip(l)), PROCEDURE_MARKER)

\* the test of line 156 on a line
IsEndLine(l) == EndsWith(Strip(l), BODY_END)

\* ls[i], ..., ls[j] joined by newlines
RECURSIVE JoinLines(_, _, _)
JoinLines(ls, i, j) ==
    IF i > j THEN << >>
    ELSE IF i = j THEN ls[i]
    ELSE ls[i] \o << NL >> \o JoinLines(ls, i + 1, j)

\* lines i..j are a procedure body: a marker line, then the first line that
\* ends the body, with no other marker line in between
IsProcedureSpan(ls, i, j) ==
    /\ i < j
    /\ IsMarkerLine(ls[i])
    /\ ~IsEndLine(ls[i])
    /\ IsEndLine(ls[j])
    /\ \A k \in (i + 1)..(j - 1) : ~IsEndLine(ls[k]) /\ ~IsMarkerLine(ls[k])
    /\ ~IsMarkerLine(ls[j])

\* the text of a procedure span, trimmed, without the ';' that follows '$$'
SpanText(ls, i, j) ==
    LET whole == Strip(JoinLines(ls, i, j))
    IN  SubSeq(whole, 1, Len(whole) - 1)

\* some line of the span before its last line holds a ';'
BodyHasSemicolon(ls, i, j) ==
    \E k \in i..(j - 1) : Contains(ls[k], << SEMI >>)

ProcedureSpans(ls) ==
    { ij \in (1..Len(ls)) \X (1..Len(ls)) : IsProcedureSpan(ls, ij[1], ij[2]) }

-----------------------------------------------------------------------------
(* Procedure bodies.                                                       *)

\* C1: a procedure body is never split on its internal ';': for every marker
\* line followed by body text holding ';' and then by a line ending in '$$;',
\* one returned statement holds the whole span from the marker line through
\* the '$$' of the closing line; and the input of ProcedureScenario yields
\* exactly two statements, the procedure and 'SELECT 1'.
C1_ProcedureBodyNotSplit ==
    pc = "done" =>
        /\ \A ij \in ProcedureSpans(lines) :
               BodyHasSemicolon(lines, ij[1], ij[2]) =>
                   \E k \in 1..Len(statements) :
                       Contains(statements[k], SpanText(lines, ij[1], ij[2]))
        /\ sql_text = ProcedureScenario =>
               /\ Len(statements) = 2
               /\ statements[2] = <<"S","E","L","E","C","T"," ","1">>

\* C2: after a line that, stripped, ends with '$$;' has been processed, the
\* splitter is in normal mode, also when that line holds the marker.
C2_EndLineLeavesProcedureMode ==
    (pc \in {"loop", "done"} /\ n > 0 /\ IsEndLine(lines[n])) => ~in_procedure

\* C3: with two or more procedure bodies in the input, each body is returned
\* as a statement of its own, the bodies in input order; the input of
\* TwoProceduresScenario yields its two procedures and its two ordinary
\* statements, four statements in all.
C3_EachProcedureOneStatement ==
    pc = "done" =>
        /\ \A s1, s2 \in ProcedureSpans(lines) :
               s1[2] < s2[1] =>
                   \E k1, k2 \in 1..Len(statements) :
                       /\ k1 < k2
                       /\ Contains(statements[k1], SpanText(lines, s1[1], s1[2]))
                       /\ Contains(statements[k2], SpanText(lines, s2[1], s2[2]))
        /\ sql_text = TwoProceduresScenario => Len(statements) = 4

-----------------------------------------------------------------------------
(* Splitting without procedures.                                           *)

\* no line the loop sees holds the procedure marker
NoMarkerLine == \A k \in 1..Len(lines) : ~IsMarkerLine(lines[k])

\* the pieces trimmed, the empty ones dropped
TrimmedNonEmpty(pieces) ==
    SelectSeq([k \in 1..Len(pieces) |-> Strip(pieces[k])],
              LAMBDA piece : piece # << >>)

\* the reference of C4: the comment-stripped text split on ';' as a whole
ReferenceSplit(content) == TrimmedNonEmpty(Split(content, SEMI))

\* C4: when no line of the comment-stripped text holds the procedure marker,
\* the returned statements are the comment-stripped text split on ';', each
\* piece trimmed, the empty pieces dropped.
C4_MatchesReferenceSplit ==
    (pc = "done" /\ NoMarkerLine) => statements = ReferenceSplit(sql_content)

\* C4 witness: a marker-free input of several lines from which a comment
\* was removed and which yields two or more statements
C4_Witness ==
    /\ pc = "done"
    /\ NoMarkerLine
    /\ sql_content # sql_text
    /\ Len(lines) >= 2
    /\ Len(statements) >= 2

-----------------------------------------------------------------------------
(* Re-splitting.                                                           *)

\* every statement followed by ';', concatenated in order
Rejoin(stmts) == Flatten([k \in 1..Len(stmts) |-> stmts[k] \o << SEMI >>])

\* a text with the characters of the set removed
Without(s, chars) == SelectSeq(s, LAMBDA c : c \notin chars)

\* the same statements when whitespace is ignored
SameModuloWhitespace(a, b) ==
    /\ Len(a) = Len(b)
    /\ \A k \in 1..Len(a) : Without(a[k], Whitespace) = Without(b[k], Whitespace)

\* the statement holds the procedure marker or the opener of a comment
HoldsMarkerOrCommentOpener(stmt) ==
    \/ Contains(Upper(stmt), PROCEDURE_MARKER)
    \/ Contains(stmt, <<"-","-">>)
    \/ Contains(stmt, <<"/","*">>)

\* C5 as stated: for every input, splitting the re-joined output returns
\* the same statements, modulo whitespace.
C5_ResplitIdempotentOriginal ==
    pc = "done" =>
        SameModuloWhitespace(parse_sql_statements(Rejoin(statements)), statements)

\* C5 amended: when no returned statement holds the procedure marker or a
\* comment opener ('--', '/*'), splitting the re-joined output returns the
\* same statements.
C5_ResplitIdempotent ==
    (pc = "done" /\ \A k \in 1..Len(statements) :
                        ~HoldsMarkerOrCommentOpener(statements[k]))
        => parse_sql_statements(Rejoin(statements)) = statements

\* C5 witness: two or more statements, none with a marker or comment opener,
\* returned for an input from which a comment was removed
C5_Witness ==
    /\ pc = "done"
    /\ Len(statements) >= 2
    /\ sql_content # sql_text
    /\ \A k \in 1..Len(statements) : ~HoldsMarkerOrCommentOpener(statements[k])

-----------------------------------------------------------------------------
(* Conservation, delimiters, trimming and order.                           *)

\* C6: the returned statements, each followed by ';' and concatenated in
\* order, are the comment-stripped input when whitespace and ';' are
\* ignored: nothing is lost, duplicated or reordered.
C6_NothingLostOrReordered ==
    pc = "done" =>
        Without(Rejoin(statements), Whitespace \cup {SEMI})
            = Without(sql_content, Whitespace \cup {SEMI})

\* C6 witness: an input with a procedure marker line that was split into
\* three or more statements
C6_Witness ==
    /\ pc = "done"
    /\ Len(statements) >= 3
    /\ \E k \in 1..Len(lines) : IsMarkerLine(lines[k])

\* line i of ls lies in a procedure body: a marker line at or before it,
\* and no line from that marker line to the line before i ends the body
InProcedureBody(ls, i) ==
    \E m \in 1..i :
        /\ IsMarkerLine(ls[m])
        /\ \A j \in m..(i - 1) : ~IsEndLine(ls[j])

\* C7: no returned statement holds a top-level ';': when the call has
\* returned, every line of every statement that holds ';' lies in a
\* procedure body, between a 'CREATE OR REPLACE PROCEDURE' line and the line
\* that ends the body (the line ending in '$$;', which may be the marker
\* line itself).
C7_NoTopLevelSemicolon ==
    pc = "done" =>
        \A k \in 1..Len(statements) :
            LET ls == Split(statements[k], NL)
            IN  \A i \in 1..Len(ls) :
                    Contains(ls[i], << SEMI >>) => InProcedureBody(ls, i)

\* the statements occur in the text one after the other, from position i
RECURSIVE OccurInOrder(_, _, _)
OccurInOrder(stmts, text, i) ==
    IF stmts = << >> THEN TRUE
    ELSE /\ \E j \in i..Len(text) : MatchAt(text, j, Head(stmts))
         /\ LET j == CHOOSE j \in i..Len(text) :
                        /\ MatchAt(text, j, Head(stmts))
                        /\ \A h \in i..(j - 1) : ~MatchAt(text, h, Head(stmts))
            IN  OccurInOrder(Tail(stmts), text, j + Len(Head(stmts)))

\* C8: every returned statement is non-empty and has no leading or trailing
\* whitespace, the statements occur in the comment-stripped input in the
\* order they are returned, and the input of SchemaScenario yields
\* 'CREATE SCHEMA A', 'CREATE SCHEMA B'.
C8_TrimmedNonEmptyInOrder ==
    pc = "done" =>
        /\ \A k \in 1..Len(statements) :
               /\ statements[k] # << >>
               /\ Strip(statements[k]) = statements[k]
        /\ OccurInOrder(statements, sql_content, 1)
        /\ sql_text = SchemaScenario =>
               statements =
                   << <<"C","R","E","A","T","E"," ","S","C","H","E","M","A"," ","A">>,
                      <<"C","R","E","A","T","E"," ","S","C","H","E","M","A"," ","B">> >>

\* C8 witness: the two statements of SchemaScenario have been returned
C8_Witness ==
    /\ pc = "done"
    /\ sql_text = SchemaScenario
    /\ Len(statements) = 2

-----------------------------------------------------------------------------
(* Comments.                                                               *)

\* the line up to its first "--"
CutAtLineComment(l) ==
    IF Contains(l, <<"-","-">>)
    THEN LET i == CHOOSE i \in 1..Len(l) :
                      /\ MatchAt(l, i, <<"-","-">>)
                      /\ \A h \in 1..(i - 1) : ~MatchAt(l, h, <<"-","-">>)
         IN  SubSeq(l, 1, i - 1)
    ELSE l

\* the text with every line cut at its first "--"
WithoutLineComments(text) ==
    LET ls  == Split(text, NL)
        cut == [k \in 1..Len(ls) |-> CutAtLineComment(ls[k])]
    IN  JoinLines(cut, 1, Len(cut))

\* C9: a trailing '--' comment, with or without a newline after it, changes
\* nothing: for an input with line comments and no block comment opener, no
\* returned statement holds '--' and the statements are those of the input
\* without its line comments.
C9_TrailingLineCommentRemoved ==
    (pc = "done" /\ Contains(sql_text, <<"-","-">>)
                 /\ ~Contains(sql_text, <<"/","*">>)) =>
        /\ \A k \in 1..Len(statements) : ~Contains(statements[k], <<"-","-">>)
        /\ statements = parse_sql_statements(WithoutLineComments(sql_text))

\* C10: 'CREATE TABLE T (/* col comment */ID INT);' yields exactly
\* 'CREATE TABLE T ( ID INT)', a single space in the place of the comment.
C10_BlockCommentLeavesSpace ==
    (pc = "done" /\ sql_text = BlockCommentScenario) =>
        statements =
            << <<"C","R","E","A","T","E"," ","T","A","B","L","E"," ","T"," ",
                 "("," ","I","D"," ","I","N","T",")">> >>

-----------------------------------------------------------------------------
(* Comments and tokens.                                                    *)

\* the words of a text: its maximal runs of characters that are neither
\* whitespace nor ';'
Words(text) ==
    LET spaced == [i \in 1..Len(text) |->
                      IF text[i] \in Whitespace \cup {SEMI} THEN " " ELSE text[i]]
    IN  SelectSeq(Split(spaced, " "), LAMBDA w : w # << >>)

\* the text with every block comment the code removes replaced by one space
RECURSIVE BlankedBlockComments(_, _)
BlankedBlockComments(s, i) ==
    IF i > Len(s) THEN << >>
    ELSE IF /\ MatchAt(s, i, <<"/","*">>)
            /\ \E j \in (i + 2)..Len(s) : MatchAt(s, j, <<"*","/">>)
         THEN LET j == CHOOSE j \in (i + 2)..Len(s) :
                           /\ MatchAt(s, j, <<"*","/">>)
                           /\ \A k \in (i + 2)..(j - 1) :
                                  ~MatchAt(s, k, <<"*","/">>)
              IN  << " " >> \o BlankedBlockComments(s, j + 2)
         ELSE LET m == NextAt(s, i, <<"/","*">>)
              IN  SubSeq(s, i, m - 1) \o BlankedBlockComments(s, m)

\* C11: comment removal joins no two tokens: the words of the returned
\* statements are the words of the input in which every removed comment is
\* a separator (a line comment a newline, a block comment a space).
C11_CommentsJoinNoTokens ==
    pc = "done" =>
        Words(Rejoin(statements))
            = Words(BlankedBlockComments(SubLineComments(sql_text, 1), 1))

\* the "/*" at position i of s has no "*/" after it
UnterminatedAt(s, i) ==
    /\ MatchAt(s, i, <<"/","*">>)
    /\ \A j \in (i + 2)..Len(s) : ~MatchAt(s, j, <<"*","/">>)

\* the first "/*" of s has no "*/" after it
FirstOpenerUnterminated(s) ==
    \E i \in 1..Len(s) :
        /\ UnterminatedAt(s, i)
        /\ \A h \in 1..(i - 1) : ~MatchAt(s, h, <<"/","*">>)

\* C12 as stated: when the input holds a "/*" with no later "*/", no
\* returned statement holds "/*": the comment was consumed to the end.
C12_UnterminatedCommentConsumedOriginal ==
    (pc = "done" /\ \E i \in 1..Len(sql_text) : UnterminatedAt(sql_text, i)) =>
        \A k \in 1..Len(statements) : ~Contains(statements[k], <<"/","*">>)

\* C12 amended: when, after the removal of line comments, the first "/*" of
\* the text has no later "*/", block-comment removal removes nothing: the
\* "/*" and the text after it stay and are returned in the statements.
C12_UnterminatedCommentKept ==
    (pc = "done" /\ FirstOpenerUnterminated(SubLineComments(sql_text, 1))) =>
        /\ sql_content = SubLineComments(sql_text, 1)
        /\ \E k \in 1..Len(statements) : Contains(statements[k], <<"/","*">>)
        /\ Without(Rejoin(statements), Whitespace \cup {SEMI})
               = Without(SubLineComments(sql_text, 1), Whitespace \cup {SEMI})

\* C12 witness: an unterminated "/*" with a ';' after it, returned in two
\* or more statements
C12_Witness ==
    /\ pc = "done"
    /\ FirstOpenerUnterminated(SubLineComments(sql_text, 1))
    /\ Len(statements) >= 2
    /\ \E k \in 2..Len(statements) :
           \E h \in 1..(k - 1) : Contains(statements[h], <<"/","*">>)

\* from position i on, the text is whitespace, line comments (to the end of
\* the line or of the text) and terminated block comments only
RECURSIVE OnlyComments(_, _)
OnlyComments(s, i) ==
    IF i > Len(s) THEN TRUE
    ELSE IF s[i] \in Whitespace THEN OnlyComments(s, i + 1)
    ELSE IF MatchAt(s, i, <<"-","-">>)
         THEN IF \E j \in (i + 2)..Len(s) : s[j] = NL
              THEN LET j == CHOOSE j \in (i + 2)..Len(s) :
                                /\ s[j] = NL
                                /\ \A k \in (i + 2)..(j - 1) : s[k] # NL
                   IN  OnlyComments(s, j + 1)
              ELSE TRUE
    ELSE IF /\ MatchAt(s, i, <<"/","*">>)
            /\ \E j \in (i + 2)..Len(s) : MatchAt(s, j, <<"*","/">>)
         THEN LET j == CHOOSE j \in (i + 2)..Len(s) :
                           /\ MatchAt(s, j, <<"*","/">>)
                           /\ \A k \in (i + 2)..(j - 1) :
                                  ~MatchAt(s, k, <<"*","/">>)
              IN  OnlyComments(s, j + 2)
    ELSE FALSE

\* C13: an input with nothing outside comments (the empty text, whitespace,
\* line comments with or without a final newline, block comments) yields
\* no statement.
C13_OnlyCommentsYieldNothing ==
    (pc = "done" /\ OnlyComments(sql_text, 1)) => statements = << >>

-----------------------------------------------------------------------------
(* A single statement, termination, string literals.                       *)

\* the input is not blank, holds no ';' and does not end in a newline
SingleUnterminatedText(text) ==
    /\ Strip(text) # << >>
    /\ ~Contains(text, << SEMI >>)
    /\ text[Len(text)] # NL

\* C14 as stated: a non-blank input with no ';' and no final newline yields
\* exactly one statement, the input trimmed.
C14_SingleStatementOriginal ==
    (pc = "done" /\ SingleUnterminatedText(sql_text)) =>
        statements = << Strip(sql_text) >>

\* C14 amended: an input with no ';' and no final newline whose
\* comment-stripped text is not blank yields exactly one statement, the
\* comment-stripped text trimmed.
C14_SingleStatement ==
    (pc = "done" /\ SingleUnterminatedText(sql_text)
                 /\ Strip(sql_content) # << >>) =>
        statements = << Strip(sql_content) >>

\* C14 witness: such an input of several lines, a comment removed from it
C14_Witness ==
    /\ pc = "done"
    /\ SingleUnterminatedText(sql_text)
    /\ Strip(sql_content) # << >>
    /\ sql_content # sql_text
    /\ Len(lines) >= 2
    /\ Len(statements) = 1

\* C15: for every input (empty, unbalanced comment markers, a marker with
\* no '$$;' line, a '$$;' line with no marker) the call ends and returns.
C15_Terminates == <>(pc = "done")

\* C15 witness: the call has returned, still in procedure mode, for a
\* procedure marker that no '$$;' line follows
C15_Witness ==
    /\ pc = "done"
    /\ in_procedure
    /\ sql_text = PROCEDURE_MARKER

\* C16: the splitter tracks no string literal: in_string is false in every
\* state, and the input of StringLiteralScenario is split at the ';' inside
\* its literal.
C16_NoStringTracking ==
    /\ in_string = FALSE
    /\ (pc = "done" /\ sql_text = StringLiteralScenario) =>
           statements =
               << <<"I","N","S","E","R","T"," ","I","N","T","O"," ","T"," ",
                    "V","A","L","U","E","S"," ","(","'","a">>,
                  <<"b","'",")">> >>

\* C16 witness: the two statements of StringLiteralScenario have been returned
C16_Witness ==
    /\ pc = "done"
    /\ sql_text = StringLiteralScenario
    /\ Len(statements) = 2
    /\ ~in_string

-----------------------------------------------------------------------------
(* TableDeployer.deploy_schema_tables, lines 100-134.  execute_sql (lines   *)
(* 45-58) is a call and a return: it returns the rows, or raises (always,   *)
(* when self.conn is None).                                                 *)

\* no call of parse_sql_statements is observed line by line
SplitterAtRest ==
    /\ sql_text = << >>
    /\ sql_content = << >>
    /\ lines = << >>
    /\ n = 0
    /\ current_statement = << >>
    /\ in_string = FALSE
    /\ in_procedure = FALSE
    /\ statements = << >>
    /\ pc = "idle"

\* the keys of schema_mapping, lines 62-69
SchemaMapping ==
    { <<"s","a","l","e","s">>, <<"p","r","o","d","u","c","t","s">>,
      <<"c","u","s","t","o","m","e","r","s">>, <<"h","r">>,
      <<"a","n","a","l","y","t","i","c","s">>, <<"s","t","a","g","i","n","g">> }

\* the schema names deploy_schema_tables is called with
SchemaNames == { <<"s","a","l","e","s">>, <<"H","R">>, <<"f","o","o">> }

\* the texts of the table definition files
\* table files that name schemas in the three ways of lines 90-92:
\* 'USE SCHEMA RETAILWORKS_DB.S_SCHEMA;'
UseSchemaScenario ==
    <<"U","S","E"," ","S","C","H","E","M","A"," ",
      "R","E","T","A","I","L","W","O","R","K","S","_","D","B",".",
      "S","_","S","C","H","E","M","A",";">>

\* 'RETAILWORKS_DB.S_SCHEMA.T;a'
QualifiedNamesScenario ==
    <<"R","E","T","A","I","L","W","O","R","K","S","_","D","B",".",
      "S","_","S","C","H","E","M","A",".","T",";","a">>

\* 'H_SCHEMA.E;S_SCHEMA.T'
SchemaNamesScenario ==
    <<"H","_","S","C","H","E","M","A",".","E",";",
      "S","_","S","C","H","E","M","A",".","T">>

TableFiles ==
    { << >>, SchemaScenario, ShortProcedureScenario, StringLiteralScenario,
      TrailingCommentScenario, <<"a",";","b",";","c",";","d">>,
      UseSchemaScenario, QualifiedNamesScenario, SchemaNamesScenario }

\* values of --schema-suffix (line 260): none, an environment's, and one
\* that begins with a digit
SchemaSuffixes == { << >>, <<"_","D","E","V">>, <<"2">>, <<"2","3">> }

Digits == {"0", "1", "2", "3", "4", "5", "6", "7", "8", "9"}

OctalDigits == {"0", "1", "2", "3", "4", "5", "6", "7"}

\* the characters \w matches, among ASCII characters
WordChars ==
    { LowerLetters[k] : k \in 1..Len(LowerLetters) }
        \cup { UpperLetters[k] : k \in 1..Len(UpperLetters) }
        \cup Digits \cup {"_"}

USE_SCHEMA_DB ==
    <<"U","S","E"," ","S","C","H","E","M","A"," ",
      "R","E","T","A","I","L","W","O","R","K","S","_","D","B",".">>

RETAILWORKS_DB == <<"R","E","T","A","I","L","W","O","R","K","S","_","D","B",".">>

_SCHEMA == <<"_","S","C","H","E","M","A">>

\* the length of the run of word characters of s that begins at position q
RECURSIVE WordRun(_, _)
WordRun(s, q) ==
    IF q <= Len(s) /\ s[q] \in WordChars THEN 1 + WordRun(s, q + 1) ELSE 0

\* the length of what (\w+_SCHEMA) matches at position q of s, 0 when it
\* does not match: the longest run of word characters that ends in _SCHEMA
\* and, when the pattern goes on with \., is followed by '.'
GroupLen(s, q, dot) ==
    LET fits == { g \in (Len(_SCHEMA) + 1)..WordRun(s, q) :
                    /\ MatchAt(s, q + g - Len(_SCHEMA), _SCHEMA)
                    /\ dot => MatchAt(s, q + g, <<".">>) }
    IN  IF fits = {} THEN 0
        ELSE CHOOSE g \in fits : \A h \in fits : h <= g

\* the characters with the codes 64 to 127, in order (the grave accent,
\* code 96, which a string cannot hold, is written U+0060)
OctalEscapeChars ==
    <<"@","A","B","C","D","E","F","G","H","I","J","K","L","M","N","O",
      "P","Q","R","S","T","U","V","W","X","Y","Z","[","\\","]","^","_",
      "U+0060","a","b","c","d","e","f","g","h","i","j","k","l","m","n","o",
      "p","q","r","s","t","u","v","w","x","y","z","{","|","}","~","">>

DigitValue(d) ==
    CHOOSE v \in 0..9 :
        <<"0", "1", "2", "3", "4", "5", "6", "7", "8", "9">>[v + 1] = d

\* the template \1 followed by the suffix holds an octal escape: the
\* backslash, 1 and two octal digits
IsOctalEscape(schema_suffix) ==
    /\ Len(schema_suffix) >= 2
    /\ schema_suffix[1] \in OctalDigits
    /\ schema_suffix[2] \in OctalDigits

\* what the template \1 followed by the suffix puts for a match whose group
\* is group: the group and the suffix; or, when the suffix begins with two
\* octal digits d and e, the character with the octal code 1de and the rest
\* of the suffix, without the group
Expand(group, schema_suffix) ==
    IF IsOctalEscape(schema_suffix)
    THEN << OctalEscapeChars[8 * DigitValue(schema_suffix[1])
                             + DigitValue(schema_suffix[2]) + 1] >>
         \o SubSeq(schema_suffix, 3, Len(schema_suffix))
    ELSE group \o schema_suffix

\* re.sub of lines 96-97 for one pattern of lines 90-92, from position p
\* on: every match of prefix (\w+_SCHEMA) [\.], leftmost first and without
\* overlap, is replaced by the prefix, the expansion of \1 and the suffix,
\* and the dot
RECURSIVE ReSub(_, _, _, _, _)
ReSub(s, p, prefix, dot, schema_suffix) ==
    IF p > Len(s) THEN << >>
    ELSE LET q == p + Len(prefix)
             g == IF MatchAt(s, p, prefix) THEN GroupLen(s, q, dot) ELSE 0
             e == q + g + (IF dot THEN 1 ELSE 0)
         IN  IF g = 0
             THEN <<s[p]>> \o ReSub(s, p + 1, prefix, dot, schema_suffix)
             ELSE prefix \o Expand(SubSeq(s, q, q + g - 1), schema_suffix)
                  \o (IF dot THEN <<".">> ELSE << >>)
                  \o ReSub(s, e, prefix, dot, schema_suffix)

\* lines 90-92 and 96-97: the replacement templates are \1 followed by the
\* suffix; a suffix that begins with a digit makes the group reference \1d,
\* a group the patterns do not have, and re.sub raises re.error (two octal
\* digits after the backslash-1 make an octal escape instead)
TemplateRaises(schema_suffix) ==
    /\ Len(schema_suffix) >= 1
    /\ schema_suffix[1] \in Digits
    /\ ~IsOctalEscape(schema_suffix)

\* lines 82-98, for a suffix of word characters whose templates compile
modify_sql_for_environment(content, schema_suffix) ==
    IF schema_suffix = << >> THEN content
    ELSE LET first  == ReSub(content, 1, USE_SCHEMA_DB, FALSE, schema_suffix)
             second == ReSub(first, 1, RETAILWORKS_DB, TRUE, schema_suffix)
         IN  ReSub(second, 1, << >>, TRUE, schema_suffix)

\* the call deploy_schema_tables(schema_name)
DeployInit ==
    /\ SplitterAtRest
    /\ deploy_all = DeployAllAtRest
    /\ warehouse = WarehouseAtRest
    /\ etl = EtlAtRest
    /\ rollback = RollbackAtRest
    /\ envdeploy = EnvDeployAtRest
    /\ \E conn \in BOOLEAN, name \in SchemaNames, exists \in BOOLEAN,
          readable \in BOOLEAN, content \in TableFiles,
          suffix \in SchemaSuffixes :
           deploy = [DeployAtRest EXCEPT !.pc = "called", !.conn = conn,
                                         !.schema_name = name,
                                         !.file_exists = exists,
                                         !.file_readable = readable,
                                         !.schema_suffix = suffix,
                                         !.sql_content = content]

\* lines 102-116: the file is found, read, modified and split; lines
\* 130-134 when get_table_file_path raises (lines 72-78), the file cannot be
\* read (lines 109-110) or re.sub raises (line 113)
ReadAndParse ==
    /\ deploy.pc = "called"
    /\ IF \/ Lower(deploy.schema_name) \notin SchemaMapping
          \/ ~deploy.file_exists
          \/ ~deploy.file_readable
          \/ TemplateRaises(deploy.schema_suffix)
       THEN deploy' = [deploy EXCEPT !.pc = "raised"]
       ELSE deploy' = [deploy EXCEPT
                          !.statements =
                              parse_sql_statements(
                                  modify_sql_for_environment(
                                      deploy.sql_content,
                                      deploy.schema_suffix)),
                          !.i = 1,
                          !.pc = "loop"]
    /\ UNCHANGED <<splitter, etl, rollback, envdeploy, deploy_all, warehouse>>

\* lines 119-125: the next statement is passed to execute_sql; a blank one
\* is passed over
IssueStatement ==
    /\ deploy.pc = "loop"
    /\ deploy.in_flight = 0
    /\ deploy.i <= Len(deploy.statements)
    /\ IF Strip(deploy.statements[deploy.i]) # << >>
       THEN deploy' = [deploy EXCEPT !.issued = Append(@, deploy.i),
                                     !.in_flight = deploy.i]
       ELSE deploy' = [deploy EXCEPT !.i = @ + 1]
    /\ UNCHANGED <<splitter, etl, rollback, envdeploy, deploy_all, warehouse>>

\* the results execute_sql can have, lines 47-58
ExecuteSqlResults(conn) == IF conn THEN BOOLEAN ELSE {FALSE}

\* CompleteStatement with a failure that ends the deployment
CompleteStatementAborting ==
    /\ deploy.pc = "loop"
    /\ deploy.in_flight # 0
    /\ \E ok \in ExecuteSqlResults(deploy.conn) :
           deploy' = [deploy EXCEPT
               !.completed = Append(@, [index |-> deploy.in_flight, ok |-> ok]),
               !.warnings = IF ok THEN @ ELSE Append(@, deploy.in_flight),
               !.in_flight = 0,
               !.i = @ + 1,
               !.pc = IF ok THEN "loop" ELSE "raised"]
    /\ UNCHANGED <<splitter, etl, rollback, envdeploy, deploy_all, warehouse>>

\* lines 122-128: execute_sql returns, or raises and the failure is logged
\* as a warning; the loop goes on
CompleteStatement ==
    /\ deploy.pc = "loop"
    /\ deploy.in_flight # 0
    /\ \E ok \in ExecuteSqlResults(deploy.conn) :
           deploy' = [deploy EXCEPT
               !.completed = Append(@, [index |-> deploy.in_flight, ok |-> ok]),
               !.warnings = IF ok THEN @ ELSE Append(@, deploy.in_flight),
               !.in_flight = 0,
               !.i = @ + 1]
    /\ UNCHANGED <<splitter, etl, rollback, envdeploy, deploy_all, warehouse>>

\* line 130: the loop is over
FinishDeployment ==
    /\ deploy.pc = "loop"
    /\ deploy.in_flight = 0
    /\ deploy.i > Len(deploy.statements)
    /\ deploy' = [deploy EXCEPT !.pc = "returned"]
    /\ UNCHANGED <<splitter, etl, rollback, envdeploy, deploy_all, warehouse>>

DeployNext ==
    ReadAndParse \/ IssueStatement \/ CompleteStatement \/ FinishDeployment

DeploySpec == DeployInit /\ [][DeployNext]_vars

\* the indices of the statements that failed, in order
RECURSIVE FailedIndices(_)
FailedIndices(done) ==
    IF done = << >> THEN << >>
    ELSE IF Head(done).ok THEN FailedIndices(Tail(done))
         ELSE << Head(done).index >> \o FailedIndices(Tail(done))

\* C17: the statements parse_sql_statements returned are passed to
\* execute_sql in sequence order, each once; a statement is issued only when
\* every earlier one has returned or failed; a failure is logged as a warning
\* and the call ends only when every statement has been issued.
C17_StatementsInOrderOnce ==
    /\ deploy.issued = [k \in 1..Len(deploy.issued) |-> k]
    /\ Len(deploy.issued) <= Len(deploy.statements)
    /\ \A k \in 1..Len(deploy.completed) : deploy.completed[k].index = k
    /\ IF deploy.in_flight = 0
       THEN Len(deploy.completed) = Len(deploy.issued)
       ELSE /\ deploy.in_flight = Len(deploy.issued)
            /\ Len(deploy.completed) = Len(deploy.issued) - 1
    /\ deploy.warnings = FailedIndices(deploy.completed)
    /\ (deploy.pc \in {"returned", "raised"} /\ deploy.statements # << >>) =>
           /\ deploy.pc = "returned"
           /\ Len(deploy.completed) = Len(deploy.statements)

\* C17 witness: a deployment of four statements has ended; the first one
\* failed, the last one succeeded
C17_Witness ==
    /\ deploy.pc = "returned"
    /\ Len(deploy.statements) = 4
    /\ Len(deploy.completed) = 4
    /\ ~deploy.completed[1].ok
    /\ deploy.completed[4].ok

-----------------------------------------------------------------------------
(* RetailWorksETL.update_dimensional_tables, lines 164-295: two MERGE       *)
(* statements, each committed on its own, on the tables of warehouse.       *)

\* the most calls of update_dimensional_tables
MaxRuns == 2

\* how many rows of a joined table have the key a source row refers to:
\* none (the LEFT JOIN keeps the source row once, as it does with one row
\* of that key) or two
LookupRowCounts == {0, 2}

\* the rows a LEFT JOIN makes of one row: one for each match, one without
JoinRows(matches) == IF matches = 0 THEN 1 ELSE matches

\* lines 215-218: the rows of the USING subquery for customer c
CustomerSourceRows(w, c) ==
    IF w.customers[c] = NoRow THEN 0
    ELSE JoinRows(w.customer_segments) * JoinRows(w.addresses)
             * JoinRows(w.addresses)

\* lines 266-268: the rows of the USING subquery for product p
ProductSourceRows(w, p) ==
    IF w.products[p] = NoRow THEN 0
    ELSE JoinRows(w.categories) * JoinRows(w.suppliers)

\* the number of rows of a table
RECURSIVE SumOver(_, _)
SumOver(tgt, rows) ==
    IF rows = {} THEN 0
    ELSE LET r == CHOOSE x \in rows : TRUE
         IN  tgt[r] + SumOver(tgt, rows \ {r})

\* the rows of tgt with IS_CURRENT = TRUE for an id
CurrentRows(tgt, id) ==
    SumOver(tgt, { r \in DOMAIN tgt : r.ID = id /\ r.IS_CURRENT })

\* lines 219-224, 269-274: the row r of tgt is matched by a source row that
\* differs from it; src[id] is the source row of an id and k[id] the number
\* of its copies in the USING subquery
MatchedAndChanged(tgt, src, k, r) ==
    /\ r.IS_CURRENT
    /\ tgt[r] > 0
    /\ k[r.ID] >= 1
    /\ src[r.ID] # r.TRACKED

\* lines 219, 227, 269, 277: the source rows of an id match no row of tgt
NotMatched(tgt, src, k, id) ==
    /\ k[id] >= 1
    /\ CurrentRows(tgt, id) = 0

\* a row to be updated is matched by more than one source row
NondeterministicMerge(tgt, src, k) ==
    \E r \in DOMAIN tgt : MatchedAndChanged(tgt, src, k, r) /\ k[r.ID] >= 2

\* Merged with WHEN NOT MATCHED taken for every source row
MergedInsertingAlways(tgt, src, k) ==
    [r \in DOMAIN tgt |->
        IF r.IS_CURRENT
        THEN (IF MatchedAndChanged(tgt, src, k, r) THEN 0 ELSE tgt[r])
             + (IF k[r.ID] >= 1 /\ src[r.ID] = r.TRACKED
                THEN k[r.ID] ELSE 0)
        ELSE LET was == [r EXCEPT !.IS_CURRENT = TRUE]
             IN  tgt[r] + (IF MatchedAndChanged(tgt, src, k, was)
                           THEN tgt[was] ELSE 0)]

\* lines 171-238, 245-284: the table after the MERGE: a matched and changed
\* row gets IS_CURRENT = FALSE, every source row that matched no row is
\* inserted with IS_CURRENT = TRUE
Merged(tgt, src, k) ==
    [r \in DOMAIN tgt |->
        IF r.IS_CURRENT
        THEN (IF MatchedAndChanged(tgt, src, k, r) THEN 0 ELSE tgt[r])
             + (IF NotMatched(tgt, src, k, r.ID) /\ src[r.ID] = r.TRACKED
                THEN k[r.ID] ELSE 0)
        ELSE LET was == [r EXCEPT !.IS_CURRENT = TRUE]
             IN  tgt[r] + (IF MatchedAndChanged(tgt, src, k, was)
                           THEN tgt[was] ELSE 0)]

\* the tables before the first of the runs: nothing is loaded; or customer
\* c1 is in CUSTOMERS and was loaded into CUSTOMER_DIM by a run before
DimWarehouses ==
    { WarehouseAtRest,
      [WarehouseAtRest EXCEPT
          !.customers = [c \in CustomerIds |-> "a"],
          !.customer_dim =
              [r \in DimRows(CustomerIds) |->
                  IF r.TRACKED = "a" /\ r.IS_CURRENT THEN 1 ELSE 0]] }

\* the pipeline has a session and no run is under way
DimInit ==
    /\ SplitterAtRest
    /\ deploy = DeployAtRest
    /\ etl = EtlAtRest
    /\ rollback = RollbackAtRest
    /\ envdeploy = EnvDeployAtRest
    /\ deploy_all = DeployAllAtRest
    /\ warehouse \in DimWarehouses

\* a customer is inserted, updated or deleted
ChangeCustomers ==
    /\ \E c \in CustomerIds, v \in TrackedValues \cup {NoRow} :
           /\ v # warehouse.customers[c]
           /\ warehouse' = [warehouse EXCEPT !.customers[c] = v]
    /\ UNCHANGED <<splitter, deploy, etl, rollback, envdeploy, deploy_all>>

\* a product is inserted, updated or deleted
ChangeProducts ==
    /\ \E p \in ProductIds, v \in TrackedValues \cup {NoRow} :
           /\ v # warehouse.products[p]
           /\ warehouse' = [warehouse EXCEPT !.products[p] = v]
    /\ UNCHANGED <<splitter, deploy, etl, rollback, envdeploy, deploy_all>>

\* rows are inserted into or deleted from a table of the LEFT JOINs
ChangeLookups ==
    /\ \E m \in LookupRowCounts :
           \/ /\ m # warehouse.customer_segments
              /\ warehouse' = [warehouse EXCEPT !.customer_segments = m]
           \/ /\ m # warehouse.addresses
              /\ warehouse' = [warehouse EXCEPT !.addresses = m]
           \/ /\ m # warehouse.categories
              /\ warehouse' = [warehouse EXCEPT !.categories = m]
           \/ /\ m # warehouse.suppliers
              /\ warehouse' = [warehouse EXCEPT !.suppliers = m]
    /\ UNCHANGED <<splitter, deploy, etl, rollback, envdeploy, deploy_all>>

\* line 164: update_dimensional_tables is called.  strict: the session's
\* ERROR_ON_NONDETERMINISTIC_MERGE is set
CalledWarehouse(w, strict) ==
    [w EXCEPT !.pc = "customer_dim", !.strict = strict, !.runs = @ + 1]

\* a call of update_dimensional_tables, after the one before it has ended
CallUpdateDimensionalTables ==
    /\ warehouse.pc \in {"idle", "returned", "raised"}
    /\ warehouse.runs < MaxRuns
    /\ \E strict \in BOOLEAN :
           warehouse' = CalledWarehouse(warehouse, strict)
    /\ UNCHANGED <<splitter, deploy, etl, rollback, envdeploy, deploy_all>>

\* lines 170-241: the MERGE into CUSTOMER_DIM is run and its rows are
\* collected.  The statement fails for a reason of its own (fails: the
\* connection is lost, the table is missing), or because it would update a
\* row from more than one source row while the session is strict; then
\* nothing is changed and the call raises (lines 293-295).  duplicate_source
\* records that the USING subquery of a statement held an id more than once.
MergeCustomerDim ==
    /\ warehouse.pc = "customer_dim"
    /\ \E fails \in BOOLEAN :
           LET k == [c \in CustomerIds |-> CustomerSourceRows(warehouse, c)]
               raises ==
                   \/ fails
                   \/ /\ warehouse.strict
                      /\ NondeterministicMerge(warehouse.customer_dim,
                                               warehouse.customers, k)
               customer_dim ==
                   IF raises THEN warehouse.customer_dim
                   ELSE Merged(warehouse.customer_dim, warehouse.customers, k)
           IN  warehouse' = [warehouse EXCEPT
                  !.customer_dim = customer_dim,
                  !.duplicate_source =
                      @ \/ (~fails /\ \E c \in CustomerIds : k[c] >= 2),
                  !.strict = IF raises THEN FALSE ELSE @,
                  !.pc = IF raises THEN "raised" ELSE "product_dim"]
    /\ UNCHANGED <<splitter, deploy, etl, rollback, envdeploy, deploy_all>>

\* lines 244-291: the MERGE into PRODUCT_DIM is run and its rows are
\* collected, with the same ways to fail; CUSTOMER_DIM stays as the first
\* statement left it
MergeProductDim ==
    /\ warehouse.pc = "product_dim"
    /\ \E fails \in BOOLEAN :
           LET k == [p \in ProductIds |-> ProductSourceRows(warehouse, p)]
               raises ==
                   \/ fails
                   \/ /\ warehouse.strict
                      /\ NondeterministicMerge(warehouse.product_dim,
                                               warehouse.products, k)
               product_dim ==
                   IF raises THEN warehouse.product_dim
                   ELSE Merged(warehouse.product_dim, warehouse.products, k)
           IN  warehouse' = [warehouse EXCEPT
                  !.product_dim = product_dim,
                  !.duplicate_source =
                      @ \/ (~fails /\ \E p \in ProductIds : k[p] >= 2),
                  !.strict = FALSE,
                  !.pc = IF raises THEN "raised" ELSE "returned"]
    /\ UNCHANGED <<splitter, deploy, etl, rollback, envdeploy, deploy_all>>

DimNext ==
    \/ ChangeCustomers
    \/ ChangeProducts
    \/ ChangeLookups
    \/ CallUpdateDimensionalTables
    \/ MergeCustomerDim
    \/ MergeProductDim

DimSpec == DimInit /\ [][DimNext]_vars

\* C29 as stated: after any runs and any changes of the source tables, with
\* one row per CUSTOMER_ID in CUSTOMERS and per PRODUCT_ID in PRODUCTS,
\* CUSTOMER_DIM holds at most one row with IS_CURRENT = TRUE per CUSTOMER_ID
\* and PRODUCT_DIM at most one per PRODUCT_ID.
C29_OneCurrentRowPerId ==
    /\ \A c \in CustomerIds : CurrentRows(warehouse.customer_dim, c) <= 1
    /\ \A p \in ProductIds : CurrentRows(warehouse.product_dim, p) <= 1

\* C29 amended: when in no run the USING subquery held an id more than once
\* (the keys of the joined tables are unique as well), each dimension table
\* holds at most one row with IS_CURRENT = TRUE per id.
C29_OneCurrentRowPerUniqueSourceId ==
    ~warehouse.duplicate_source => C29_OneCurrentRowPerId

\* C29 witness: customer c1 was loaded, changed, expired and loaded again,
\* and the product was loaded, changed and expired, with every key unique in
\* every run
C29_Witness ==
    /\ ~warehouse.duplicate_source
    /\ warehouse.customer_dim[[ID |-> "c1", TRACKED |-> "a",
                               IS_CURRENT |-> FALSE]] = 1
    /\ warehouse.customer_dim[[ID |-> "c1", TRACKED |-> "b",
                               IS_CURRENT |-> TRUE]] = 1
    /\ CurrentRows(warehouse.customer_dim, "c1") = 1
    /\ CurrentRows(warehouse.product_dim, "p1") = 0
    /\ warehouse.product_dim[[ID |-> "p1", TRACKED |-> "a",
                              IS_CURRENT |-> FALSE]] = 1

-----------------------------------------------------------------------------
(* RetailWorksETL.run_full_etl_pipeline                                     *)
(* (src/snowpark/src/etl_pipeline.py, lines 316-400).  A result entry is    *)
(* "counts" (lines 353-358), "error" (line 373) or "dimensions" (line 377); *)
(* the numbers in an entry are left out.  log_etl_process (lines 297-314)   *)
(* catches what it raises; its calls are the records of etl.log.            *)

CUSTOMERS == <<"C","U","S","T","O","M","E","R","S">>

PRODUCTS == <<"P","R","O","D","U","C","T","S">>

\* the key of line 377
DIMENSIONAL_UPDATES ==
    <<"d","i","m","e","n","s","i","o","n","a","l","_",
      "u","p","d","a","t","e","s">>

\* the table names the pipeline is called with
TableNames ==
    { CUSTOMERS, PRODUCTS, <<"c","u","s","t","o","m","e","r","s">>,
      <<"O","R","D","E","R","S">> }

\* the length of table_names
MaxTables == 3

\* pipeline_results[key] = entry
Put(results, key, entry) ==
    [k \in DOMAIN results \cup {key} |->
        IF k = key THEN entry ELSE results[k]]

\* the row log_etl_process writes: the process name is the prefix followed
\* by the table name
LogRecord(prefix, table_name, status) ==
    [process |-> prefix, table |-> table_name, status |-> status]

\* what one iteration can come to: extract_staging_data raises (lines
\* 38-40); the table has no transformation (lines 335-337); transform or
\* load raises; the table is loaded
TableOutcomes(table_name) ==
    IF Upper(table_name) \in {CUSTOMERS, PRODUCTS}
    THEN {"extract_raises", "transform_raises", "load_raises", "loaded"}
    ELSE {"extract_raises", "skipped"}

\* the tables when the pipeline is called: nothing is loaded; or the
\* customer and the product are there, the keys of the joined tables are
\* unique, and the customer was loaded into CUSTOMER_DIM before or not
LoadedWarehouses ==
    {WarehouseAtRest} \cup
    { [WarehouseAtRest EXCEPT
          !.customers = [c \in CustomerIds |-> cv],
          !.products = [p \in ProductIds |-> "a"],
          !.customer_segments = 1, !.addresses = 1,
          !.categories = 1, !.suppliers = 1,
          !.customer_dim =
              [r \in DimRows(CustomerIds) |->
                  IF r.TRACKED = "a" /\ r.IS_CURRENT THEN before ELSE 0]] :
        cv \in TrackedValues, before \in {0, 1} }

\* the call run_full_etl_pipeline(table_names), lines 319-321
EtlInit ==
    /\ SplitterAtRest
    /\ deploy_all = DeployAllAtRest
    /\ warehouse \in LoadedWarehouses
    /\ deploy = DeployAtRest
    /\ rollback = RollbackAtRest
    /\ envdeploy = EnvDeployAtRest
    /\ \E len \in 0..MaxTables : \E names \in [1..len -> TableNames] :
           etl = [EtlAtRest EXCEPT !.pc = "loop", !.table_names = names,
                                   !.i = 1]

\* ProcessTable without the try of line 326: an exception ends the call
\* through lines 390-400
ProcessTableAborting ==
    /\ etl.pc = "loop"
    /\ etl.i <= Len(etl.table_names)
    /\ LET table_name == etl.table_names[etl.i]
       IN  \E outcome \in TableOutcomes(table_name) :
               etl' = [etl EXCEPT
                   !.i = @ + 1,
                   !.outcomes = Append(@, outcome),
                   !.pc = IF outcome \in {"loaded", "skipped"}
                          THEN "loop" ELSE "raised",
                   !.log = IF outcome = "skipped" THEN @
                           ELSE IF outcome = "loaded"
                           THEN Append(@, LogRecord("ETL_", table_name,
                                                    "SUCCESS"))
                           ELSE Append(@, LogRecord("FULL_ETL_PIPELINE",
                                                    << >>, "ERROR")),
                   !.pipeline_results =
                       IF outcome = "loaded"
                       THEN Put(@, table_name, "counts")
                       ELSE @]
    /\ UNCHANGED <<splitter, deploy, rollback, envdeploy, deploy_all, warehouse>>

\* lines 323-373: one iteration of the loop over table_names
ProcessTable ==
    /\ etl.pc = "loop"
    /\ etl.i <= Len(etl.table_names)
    /\ LET table_name == etl.table_names[etl.i]
       IN  \E outcome \in TableOutcomes(table_name) :
               etl' = [etl EXCEPT
                   !.i = @ + 1,
                   !.outcomes = Append(@, outcome),
                   !.log = IF outcome = "skipped" THEN @
                           ELSE Append(@, LogRecord("ETL_", table_name,
                                                    IF outcome = "loaded"
                                                    THEN "SUCCESS"
                                                    ELSE "ERROR")),
                   !.pipeline_results =
                       IF outcome = "skipped" THEN @
                       ELSE IF outcome = "loaded"
                       THEN Put(@, table_name, "counts")
                       ELSE Put(@, table_name, "error")]
    /\ UNCHANGED <<splitter, deploy, rollback, envdeploy, deploy_all, warehouse>>

\* line 376: after the loop update_dimensional_tables is called
UpdateDimensions ==
    /\ etl.pc = "loop"
    /\ etl.i > Len(etl.table_names)
    /\ etl' = [etl EXCEPT !.update_calls = @ + 1, !.pc = "dimensions"]
    /\ \E strict \in BOOLEAN :
           warehouse' = CalledWarehouse(warehouse, strict)
    /\ UNCHANGED <<splitter, deploy, rollback, envdeploy, deploy_all>>

\* lines 376-400: update_dimensional_tables has returned, its counts are
\* put into the results, the success is logged and the results are
\* returned; or it has raised, the error is logged and the call raises
FinishPipeline ==
    /\ etl.pc = "dimensions"
    /\ warehouse.pc \in {"returned", "raised"}
    /\ LET ok == warehouse.pc = "returned"
       IN  etl' = [etl EXCEPT
               !.pipeline_results =
                   IF ok THEN Put(@, DIMENSIONAL_UPDATES, "dimensions") ELSE @,
               !.log = Append(@, LogRecord("FULL_ETL_PIPELINE", << >>,
                                           IF ok THEN "SUCCESS" ELSE "ERROR")),
               !.pc = IF ok THEN "returned" ELSE "raised"]
    /\ UNCHANGED <<splitter, deploy, rollback, envdeploy, deploy_all, warehouse>>

EtlNext ==
    \/ ProcessTable
    \/ UpdateDimensions
    \/ MergeCustomerDim
    \/ MergeProductDim
    \/ FinishPipeline

EtlSpec == EtlInit /\ [][EtlNext]_vars

\* the last iteration for the table named as the k-th one is the k-th
LastFor(k) ==
    \A j \in (k + 1)..Len(etl.outcomes) :
        etl.table_names[j] # etl.table_names[k]

\* C18: a table for which extract, transform or load raised has an error
\* entry; the tables after it are processed all the same; the dimensional
\* update is called once, after the last table; the returned results have an
\* entry for every CUSTOMERS or PRODUCTS table and 'dimensional_updates'.
C18_TableFailuresIsolated ==
    /\ Len(etl.outcomes) = etl.i - 1
    /\ etl.pc = "loop" => etl.update_calls = 0
    /\ etl.pc \in {"dimensions", "returned", "raised"} =>
           /\ Len(etl.outcomes) = Len(etl.table_names)
           /\ etl.update_calls = 1
    /\ \A k \in 1..Len(etl.outcomes) :
           (/\ etl.outcomes[k] \in {"extract_raises", "transform_raises",
                                    "load_raises"}
            /\ LastFor(k)) =>
               /\ etl.table_names[k] \in DOMAIN etl.pipeline_results
               /\ etl.pipeline_results[etl.table_names[k]] = "error"
    /\ etl.pc = "returned" =>
           /\ DIMENSIONAL_UPDATES \in DOMAIN etl.pipeline_results
           /\ etl.pipeline_results[DIMENSIONAL_UPDATES] = "dimensions"
           /\ \A k \in 1..Len(etl.table_names) :
                  Upper(etl.table_names[k]) \in {CUSTOMERS, PRODUCTS} =>
                      etl.table_names[k] \in DOMAIN etl.pipeline_results

\* C18 witness: the pipeline has returned for CUSTOMERS, whose load raised,
\* and PRODUCTS, which was loaded after it
C18_Witness ==
    /\ etl.pc = "returned"
    /\ etl.table_names = << CUSTOMERS, PRODUCTS >>
    /\ etl.outcomes = << "load_raises", "loaded" >>
    /\ etl.pipeline_results[CUSTOMERS] = "error"
    /\ etl.pipeline_results[PRODUCTS] = "counts"
    /\ etl.update_calls = 1

-----------------------------------------------------------------------------
(* DeploymentRollback.execute_rollback                                      *)
(* (src/scripts/rollback_deployment.py, lines 306-336) and the steps it     *)
(* calls.  execute_query (lines 72-91) catches every exception and returns  *)
(* None, so the steps made only of execute_query calls (create_backup,      *)
(* rollback_schemas, rollback_data, update_deployment_history) return True  *)
(* whatever happens to their queries; a step's record fields hold what the  *)
(* step asks the database to do.                                            *)

\* the step names of lines 310-318, in order
RollbackSteps ==
    << "Connect to Snowflake", "Validate Rollback Version", "Create Backup",
       "Rollback Schemas", "Rollback Data", "Update Deployment History",
       "Run Post-Rollback Tests" >>

\* the keys of env_config, lines 35-48
Environments == {"dev", "staging", "prod"}

\* the versions a rollback is asked for: --version is any string
\* (lines 352-356)
RollbackVersions == {"v1.3.0", "v1.0.0", "v0.9.0", "NULL"}

\* a value of the column BACKUP_VERSION that is a string
Str(v) == [none |-> FALSE, str |-> v]

\* a BACKUP_VERSION that is NULL: None, which is no string
NULL_VERSION == [none |-> TRUE, str |-> ""]

\* what the query of lines 141-147 can give: None or no row, rows with a
\* BACKUP_VERSION (a string, 'NULL' among them, or None), rows without one
BackupQueryResults ==
    { [kind |-> "none", versions |-> {}],
      [kind |-> "malformed", versions |-> {}] }
        \cup { [kind |-> "rows", versions |-> vs] :
                   vs \in (SUBSET {Str("v1.3.0"), Str("v0.9.0"), Str("NULL"),
                                   NULL_VERSION}) \ {{}} }

\* lines 136-157: the values of the rows, or the versions of line 152 or of
\* line 156
get_available_backups(results) ==
    IF results.kind = "rows" THEN results.versions
    ELSE IF results.kind = "none"
         THEN {Str("v1.3.0"), Str("v1.2.0"), Str("v1.1.0"), Str("v1.0.0")}
         ELSE {Str("v1.2.0"), Str("v1.1.0"), Str("v1.0.0")}

\* lines 104-110: the schemas create_backup copies
schemas_to_backup(environment) ==
    IF environment = "dev"
    THEN << "CUSTOMERS_SCHEMA_DEV", "PRODUCTS_SCHEMA_DEV", "HR_SCHEMA_DEV",
            "SALES_SCHEMA_DEV", "ANALYTICS_SCHEMA_DEV" >>
    ELSE << "CUSTOMERS_SCHEMA", "PRODUCTS_SCHEMA", "HR_SCHEMA",
            "SALES_SCHEMA", "ANALYTICS_SCHEMA" >>

\* lines 178-184: the schemas rollback_schemas drops and creates
schemas_rollback_map ==
    << "CUSTOMERS_SCHEMA_DEV", "PRODUCTS_SCHEMA_DEV", "HR_SCHEMA_DEV",
       "SALES_SCHEMA_DEV", "ANALYTICS_SCHEMA_DEV" >>

\* lines 211-216: the tables rollback_data truncates
transactional_tables ==
    << "SALES_SCHEMA_DEV.ORDERS", "SALES_SCHEMA_DEV.ORDER_ITEMS",
       "ANALYTICS_SCHEMA_DEV.SALES_FACT",
       "ANALYTICS_SCHEMA_DEV.CUSTOMER_ANALYTICS_FACT" >>

\* the call execute_rollback() on DeploymentRollback(environment, version)
RollbackInit ==
    /\ SplitterAtRest
    /\ deploy_all = DeployAllAtRest
    /\ warehouse = WarehouseAtRest
    /\ deploy = DeployAtRest
    /\ etl = EtlAtRest
    /\ envdeploy = EnvDeployAtRest
    /\ \E environment \in Environments, version \in RollbackVersions :
           rollback = [RollbackAtRest EXCEPT !.pc = "steps",
                                             !.environment = environment,
                                             !.version = version,
                                             !.i = 1]

\* the i-th step raises: validate_rollback_version joins the available
\* versions for its message when the version is not among them (line 165),
\* and str.join raises TypeError when one of them is None
StepRaises(i, version, available) ==
    /\ i = 2
    /\ Str(version) \notin available
    /\ NULL_VERSION \in available

\* what the i-th step returns: connect_snowflake (lines 55-70) and the
\* connectivity test of run_post_rollback_tests (lines 275-281) succeed or
\* not; validate_rollback_version (lines 159-169) looks the version up;
\* create_backup (lines 93-134) returns False when the rows of SHOW TABLES
\* for its nameless-th schema have no column 'name' (line 122 raises
\* KeyError; nameless = 0: no such schema); the other steps are made of
\* execute_query calls, which never raise, and return True
StepReturns(i, version, available, ok, nameless) ==
    IF i \in {1, 7} THEN ok
    ELSE IF i = 2 THEN Str(version) \in available
    ELSE IF i = 3 THEN nameless = 0
    ELSE TRUE

\* the schemas create_backup got to: all of them, or those up to the one
\* whose tables have no name
SchemasReached(environment, nameless) ==
    IF nameless = 0 THEN schemas_to_backup(environment)
    ELSE SubSeq(schemas_to_backup(environment), 1, nameless)

\* the record after the i-th step has run and returned ret; ok: every query
\* of create_backup (lines 102, 118, 127) succeeded, none came back None
AfterStep(rb, i, available, ret, ok, nameless) ==
    [rb EXCEPT
        !.started = Append(@, RollbackSteps[i]),
        !.returned = Append(@, ret),
        !.failed_steps = IF ret THEN @ ELSE Append(@, RollbackSteps[i]),
        !.available_versions = IF i = 2 THEN available ELSE @,
        !.backed_up = IF i = 3 THEN SchemasReached(rb.environment, nameless)
                      ELSE @,
        !.backup_queries_ok = IF i = 3 THEN ok ELSE @,
        !.dropped = IF i = 4 THEN schemas_rollback_map ELSE @,
        !.truncated = IF i = 5 THEN transactional_tables ELSE @,
        !.history = IF i = 6
                    THEN Append(@, [environment |-> rb.environment,
                                    version     |-> rb.version,
                                    type        |-> "ROLLBACK"])
                    ELSE @,
        !.i = @ + 1]

\* the record after the i-th step was started and raised: execute_rollback
\* has no try, the exception leaves it (and main returns 1, lines 392-394)
AfterRaise(rb, i, available) ==
    [rb EXCEPT
        !.started = Append(@, RollbackSteps[i]),
        !.available_versions = IF i = 2 THEN available ELSE @,
        !.pc = "raised"]

\* the inputs of a step that the step reads: the rows without a name are
\* met in create_backup only
NamelessSchemas(i, environment) ==
    IF i = 3 THEN 0..Len(schemas_to_backup(environment)) ELSE {0}

\* RunStep without the break of line 327
RunStepNoBreak ==
    /\ rollback.pc = "steps"
    /\ rollback.i <= Len(RollbackSteps)
    /\ \E results \in BackupQueryResults, ok \in BOOLEAN,
          nameless \in NamelessSchemas(rollback.i, rollback.environment) :
           LET available == get_available_backups(results)
               ret == StepReturns(rollback.i, rollback.version, available,
                                  ok, nameless)
           IN  rollback' =
                   IF StepRaises(rollback.i, rollback.version, available)
                   THEN AfterRaise(rollback, rollback.i, available)
                   ELSE [AfterStep(rollback, rollback.i, available, ret, ok,
                                   nameless) EXCEPT
                            !.pc = IF rollback.i = Len(RollbackSteps)
                                   THEN "summary" ELSE "steps"]
    /\ UNCHANGED <<splitter, deploy, etl, envdeploy, deploy_all, warehouse>>

\* lines 322-329: one iteration of the loop over the steps
RunStep ==
    /\ rollback.pc = "steps"
    /\ rollback.i <= Len(RollbackSteps)
    /\ \E results \in BackupQueryResults, ok \in BOOLEAN,
          nameless \in NamelessSchemas(rollback.i, rollback.environment) :
           LET available == get_available_backups(results)
               ret == StepReturns(rollback.i, rollback.version, available,
                                  ok, nameless)
           IN  rollback' =
                   IF StepRaises(rollback.i, rollback.version, available)
                   THEN AfterRaise(rollback, rollback.i, available)
                   ELSE [AfterStep(rollback, rollback.i, available, ret, ok,
                                   nameless) EXCEPT
                            !.pc = IF ~ret \/ rollback.i = Len(RollbackSteps)
                                   THEN "summary" ELSE "steps"]
    /\ UNCHANGED <<splitter, deploy, etl, envdeploy, deploy_all, warehouse>>

\* lines 331-336: the result
ReturnResult ==
    /\ rollback.pc = "summary"
    /\ rollback' = [rollback EXCEPT !.result = (rollback.failed_steps = << >>),
                                    !.pc = "returned"]
    /\ UNCHANGED <<splitter, deploy, etl, envdeploy, deploy_all, warehouse>>

RollbackNext == RunStep \/ ReturnResult

RollbackSpec == RollbackInit /\ [][RollbackNext]_vars

\* C19: the steps are started in the order of the list; a step is started
\* only when every step before it returned True; the rollback ends after the
\* first step that returned False or after the seventh; the result is True
\* exactly when all seven steps returned True.  (A step that raises has not
\* returned: it was started after steps that returned True, and no step is
\* started after it.)
C19_StepsInOrderStopAtFailure ==
    /\ rollback.started = SubSeq(RollbackSteps, 1, Len(rollback.started))
    /\ Len(rollback.started) =
           Len(rollback.returned) + (IF rollback.pc = "raised" THEN 1 ELSE 0)
    /\ \A k \in 1..(Len(rollback.returned) - 1) : rollback.returned[k]
    /\ rollback.pc = "raised" =>
           \A k \in 1..Len(rollback.returned) : rollback.returned[k]
    /\ rollback.pc \in {"summary", "returned"} =>
           \/ Len(rollback.started) = Len(RollbackSteps)
           \/ ~rollback.returned[Len(rollback.returned)]
    /\ rollback.pc = "returned" =>
           rollback.result =
               (/\ Len(rollback.returned) = Len(RollbackSteps)
                /\ \A k \in 1..Len(rollback.returned) : rollback.returned[k])

\* C19 witness: the rollback has ended with False after the version was not
\* found: two steps were started, none of the five after them
C19_Witness ==
    /\ rollback.pc = "returned"
    /\ rollback.started = << "Connect to Snowflake",
                             "Validate Rollback Version" >>
    /\ rollback.returned = << TRUE, FALSE >>
    /\ ~rollback.result
    /\ rollback.dropped = << >>

-----------------------------------------------------------------------------
(* deploy_full_environment.py: main (lines 297-342) and                     *)
(* EnvironmentDeployer.deploy_full_environment (lines 251-289).             *)

\* lines 256-271: the list of steps.  args.skip_tests is read nowhere: the
\* list ends with the validation tests whatever the flags
StepList(load_sample_data) ==
    << "Connect to Snowflake", "Deploy Schemas", "Deploy Tables",
       "Deploy Views", "Deploy Procedures", "Load Dimensional Data" >>
    \o (IF load_sample_data
        THEN << "Generate Sample Data", "Load Sample Data" >>
        ELSE << >>)
    \o << "Run Validation Tests" >>

\* a run of the script: its arguments, and whether the three required
\* environment variables are set
EnvDeployInit ==
    /\ SplitterAtRest
    /\ deploy_all = DeployAllAtRest
    /\ warehouse = WarehouseAtRest
    /\ deploy = DeployAtRest
    /\ etl = EtlAtRest
    /\ rollback = RollbackAtRest
    /\ \E environment \in Environments, load \in BOOLEAN, skip \in BOOLEAN,
          vars_set \in BOOLEAN :
           envdeploy = [EnvDeployAtRest EXCEPT !.pc = "main",
                                               !.environment = environment,
                                               !.load_sample_data = load,
                                               !.skip_tests = skip,
                                               !.env_vars_set = vars_set]

\* lines 316-330 and 251-273: the environment variables are checked, the
\* deployer is made and the list of steps is built
StartDeployment ==
    /\ envdeploy.pc = "main"
    /\ IF ~envdeploy.env_vars_set
       THEN envdeploy' = [envdeploy EXCEPT !.pc = "exited", !.exit_code = 1]
       ELSE envdeploy' = [envdeploy EXCEPT
                             !.steps = StepList(envdeploy.load_sample_data),
                             !.i = 1,
                             !.pc = "steps"]
    /\ UNCHANGED <<splitter, deploy, etl, rollback, deploy_all, warehouse>>

\* what a step can return.  execute_sql_file (lines 70-100) returns False
\* without a connection, and so do the steps that always have a file to
\* execute; the steps over a directory listing return True when it is empty
DeployStepResults(step_name, connection) ==
    IF step_name \in {"Deploy Schemas", "Deploy Tables"} /\ ~connection
    THEN {FALSE}
    ELSE BOOLEAN

\* lines 275-281: one iteration of the loop over the steps.  The step
\* function of "Load Sample Data" is the attribute self.load_sample_data, the
\* bool of line 29 that hides the method of line 200: calling it raises
\* TypeError, which ends main through lines 337-342
RunDeployStep ==
    /\ envdeploy.pc = "steps"
    /\ envdeploy.i <= Len(envdeploy.steps)
    /\ LET step_name == envdeploy.steps[envdeploy.i]
       IN  IF step_name = "Load Sample Data"
           THEN envdeploy' = [envdeploy EXCEPT
                                 !.closed = envdeploy.connection,
                                 !.pc = "exited",
                                 !.exit_code = 1]
           ELSE \E ret \in DeployStepResults(step_name, envdeploy.connection) :
                    envdeploy' = [envdeploy EXCEPT
                        !.executed = Append(@, step_name),
                        !.failed_steps = IF ret THEN @
                                         ELSE Append(@, step_name),
                        !.connection = IF step_name = "Connect to Snowflake"
                                       THEN ret ELSE @,
                        !.i = @ + 1]
    /\ UNCHANGED <<splitter, deploy, etl, rollback, deploy_all, warehouse>>

\* lines 283-289, 333-334 and 340-342: the result, the exit code, and the
\* connection closed by cleanup
ExitMain ==
    /\ envdeploy.pc = "steps"
    /\ envdeploy.i > Len(envdeploy.steps)
    /\ envdeploy' = [envdeploy EXCEPT
                        !.exit_code = IF envdeploy.failed_steps = << >>
                                      THEN 0 ELSE 1,
                        !.closed = envdeploy.connection,
                        !.pc = "exited"]
    /\ UNCHANGED <<splitter, deploy, etl, rollback, deploy_all, warehouse>>

EnvNext == StartDeployment \/ RunDeployStep \/ ExitMain

EnvSpec == EnvDeployInit /\ [][EnvNext]_vars

\* C20: in a run with --skip-tests the step 'Run Validation Tests' is not
\* executed.
C20_SkipTestsSkipsValidation ==
    envdeploy.skip_tests =>
        \A k \in 1..Len(envdeploy.executed) :
            envdeploy.executed[k] # "Run Validation Tests"

\* C21: a run with --load-sample-data that has ended executed 'Generate
\* Sample Data', then 'Load Sample Data', after 'Load Dimensional Data' and
\* before 'Run Validation Tests', and exits with 0 when no step failed.
C21_SampleDataStepsRun ==
    (/\ envdeploy.pc = "exited"
     /\ envdeploy.env_vars_set
     /\ envdeploy.load_sample_data) =>
        /\ envdeploy.executed = StepList(TRUE)
        /\ envdeploy.failed_steps = << >> => envdeploy.exit_code = 0

-----------------------------------------------------------------------------
(* TableDeployer.deploy_all_schemas, lines 218-244: one call of             *)
(* deploy_schema_tables per schema, each in the record deploy.              *)

\* line 220
schemas ==
    << <<"s","a","l","e","s">>, <<"p","r","o","d","u","c","t","s">>,
       <<"c","u","s","t","o","m","e","r","s">>, <<"h","r">>,
       <<"a","n","a","l","y","t","i","c","s">>,
       <<"s","t","a","g","i","n","g">> >>

\* the texts of the table definition files in a deployment of all schemas
AllSchemasFiles == { << >>, <<"a",";","b">> }

\* the call deploy_all_schemas(schema_suffix) on a deployer with or without
\* a connection
DeployAllInit ==
    /\ SplitterAtRest
    /\ etl = EtlAtRest
    /\ rollback = RollbackAtRest
    /\ envdeploy = EnvDeployAtRest
    /\ warehouse = WarehouseAtRest
    /\ deploy_all = [DeployAllAtRest EXCEPT !.pc = "loop", !.i = 1]
    /\ \E conn \in BOOLEAN, suffix \in SchemaSuffixes :
           deploy = [DeployAtRest EXCEPT !.conn = conn,
                                         !.schema_suffix = suffix]

\* lines 224-226: deploy_schema_tables is called for the next schema
StartSchema ==
    /\ deploy_all.pc = "loop"
    /\ deploy_all.i <= Len(schemas)
    /\ deploy.pc = "idle"
    /\ \E exists \in BOOLEAN, readable \in BOOLEAN,
          content \in AllSchemasFiles :
           deploy' = [DeployAtRest EXCEPT
                         !.pc = "called",
                         !.conn = deploy.conn,
                         !.schema_suffix = deploy.schema_suffix,
                         !.schema_name = schemas[deploy_all.i],
                         !.file_exists = exists,
                         !.file_readable = readable,
                         !.sql_content = content]
    /\ deploy_all' = [deploy_all EXCEPT
                         !.attempted = Append(@, schemas[deploy_all.i])]
    /\ UNCHANGED <<splitter, etl, rollback, envdeploy, warehouse>>

\* what a call of deploy_schema_tables came to
CallRecord ==
    [schema     |-> deploy.schema_name,
     ended      |-> deploy.pc,
     file_ok    |-> deploy.file_exists /\ deploy.file_readable,
     suffix     |-> deploy.schema_suffix,
     statements |-> Len(deploy.statements),
     failed     |-> Len(deploy.warnings)]

\* RecordResult with a failed schema ending the deployment at once
RecordResultAborting ==
    /\ deploy_all.pc = "loop"
    /\ deploy.pc \in {"returned", "raised"}
    /\ deploy_all' = [deploy_all EXCEPT
           !.deployment_results =
               Put(@, deploy.schema_name,
                   IF deploy.pc = "returned" THEN "SUCCESS" ELSE "FAILED"),
           !.calls = Append(@, CallRecord),
           !.i = @ + 1,
           !.pc = IF deploy.pc = "returned" THEN "loop" ELSE "raised"]
    /\ deploy' = [DeployAtRest EXCEPT !.conn = deploy.conn,
                                      !.schema_suffix = deploy.schema_suffix]
    /\ UNCHANGED <<splitter, etl, rollback, envdeploy, warehouse>>

\* lines 226-230: the call returned, or raised and the failure is recorded
RecordResult ==
    /\ deploy_all.pc = "loop"
    /\ deploy.pc \in {"returned", "raised"}
    /\ deploy_all' = [deploy_all EXCEPT
           !.deployment_results =
               Put(@, deploy.schema_name,
                   IF deploy.pc = "returned" THEN "SUCCESS" ELSE "FAILED"),
           !.calls = Append(@, CallRecord),
           !.i = @ + 1]
    /\ deploy' = [DeployAtRest EXCEPT !.conn = deploy.conn,
                                      !.schema_suffix = deploy.schema_suffix]
    /\ UNCHANGED <<splitter, etl, rollback, envdeploy, warehouse>>

\* lines 232-244: the summary; raises when a schema failed
Summarise ==
    /\ deploy_all.pc = "loop"
    /\ deploy_all.i > Len(schemas)
    /\ deploy.pc = "idle"
    /\ deploy_all' = [deploy_all EXCEPT
           !.pc = IF \E schema \in DOMAIN deploy_all.deployment_results :
                         deploy_all.deployment_results[schema] = "FAILED"
                  THEN "raised" ELSE "returned"]
    /\ UNCHANGED <<splitter, deploy, etl, rollback, envdeploy, warehouse>>

\* a deployer on which deploy_schema_tables or deploy_all_schemas is called
DeployerInit == DeployInit \/ DeployAllInit

DeployerNext ==
    \/ ReadAndParse
    \/ IssueStatement
    \/ CompleteStatement
    \/ FinishDeployment
    \/ StartSchema
    \/ RecordResult
    \/ Summarise

DeployerSpec == DeployerInit /\ [][DeployerNext]_vars

\* C22: the six schemas are attempted in the order of the list, each one
\* whatever became of the ones before it; when the call ends all six have
\* been attempted; it raises exactly when the deployment of some schema
\* raised, and otherwise returns with 'SUCCESS' for all six.
C22_AllSchemasAttempted ==
    /\ deploy_all.attempted = SubSeq(schemas, 1, Len(deploy_all.attempted))
    /\ \A k \in 1..Len(deploy_all.calls) :
           /\ deploy_all.calls[k].schema = schemas[k]
           /\ deploy_all.deployment_results[schemas[k]] =
                  (IF deploy_all.calls[k].ended = "raised"
                   THEN "FAILED" ELSE "SUCCESS")
    /\ deploy_all.pc \in {"returned", "raised"} =>
           /\ deploy_all.attempted = schemas
           /\ Len(deploy_all.calls) = Len(schemas)
           /\ (deploy_all.pc = "raised") =
                  (\E k \in 1..Len(schemas) :
                       deploy_all.calls[k].ended = "raised")
    /\ deploy_all.pc = "returned" =>
           \A k \in 1..Len(schemas) :
               deploy_all.deployment_results[schemas[k]] = "SUCCESS"

\* C22 witness: the deployment has raised after all six schemas were
\* attempted: the first one raised, the last one returned
C22_Witness ==
    /\ deploy_all.pc = "raised"
    /\ deploy_all.attempted = schemas
    /\ deploy_all.calls[1].ended = "raised"
    /\ deploy_all.calls[6].ended = "returned"
    /\ deploy_all.deployment_results[schemas[6]] = "SUCCESS"


\* C27: deploy_schema_tables raises only for an unknown schema name or a
\* table file that is missing or cannot be read; failed statements, all of
\* them included, never make it raise, and deploy_all_schemas records
\* 'SUCCESS' for a schema whose statements all failed.
C27_RaisesOnlyForSchemaOrFile ==
    /\ deploy.pc = "raised" =>
           \/ Lower(deploy.schema_name) \notin SchemaMapping
           \/ ~deploy.file_exists
           \/ ~deploy.file_readable
    /\ \A k \in 1..Len(deploy_all.calls) :
           /\ deploy_all.calls[k].ended = "raised" =>
                  ~deploy_all.calls[k].file_ok
           /\ (/\ deploy_all.calls[k].file_ok
               /\ deploy_all.calls[k].statements >= 1
               /\ deploy_all.calls[k].failed = deploy_all.calls[k].statements)
                  => deploy_all.deployment_results[schemas[k]] = "SUCCESS"


-----------------------------------------------------------------------------
(* A procedure whose body never ends.                                       *)

\* the lines ls[i..j], each followed by a newline, as line 159 appends them
RECURSIVE LinesAppended(_, _, _)
LinesAppended(ls, i, j) ==
    IF i > j THEN << >>
    ELSE ls[i] \o << NL >> \o LinesAppended(ls, i + 1, j)

\* line m of the split text is a marker line and no line after it ends in
\* '$$;'
UnterminatedMarker(m) ==
    /\ m \in 1..Len(lines)
    /\ IsMarkerLine(lines[m])
    /\ \A k \in (m + 1)..Len(lines) : ~IsEndLine(lines[k])

\* C23: when no line after a marker line ends in '$$;', the splitter is in
\* procedure mode from that line to the end of the input, and what it
\* returns is the statements completed before the marker line followed by
\* one statement: the text from the last boundary before the marker line to
\* the end of the input, however many ';' it holds.
C23_UnterminatedProcedureIsOneStatement ==
    \A m \in 1..Len(lines) :
        UnterminatedMarker(m) =>
            LET before == ForLines(InitialLocals, SubSeq(lines, 1, m - 1))
            IN  /\ (pc \in {"loop", "done"} /\ n >= m) => in_procedure
                /\ pc = "done" =>
                       statements = before.statements \o
                           << Strip(before.current_statement \o
                                    LinesAppended(lines, m, Len(lines))) >>

\* C23 witness: UnterminatedProcedureScenario has been split: 'a' ended
\* before the marker line, and the rest, with the two ';' after the marker,
\* is the one final statement
C23_Witness ==
    /\ pc = "done"
    /\ sql_text = UnterminatedProcedureScenario
    /\ UnterminatedMarker(3)
    /\ Contains(lines[4], << SEMI >>)
    /\ Contains(lines[6], << SEMI >>)
    /\ Len(statements) = 2
    /\ statements[1] = << "a" >>
    /\ in_procedure


\* C24: a line processed in normal mode leaves no ';' in the buffer, and
\* for a line met in normal mode the test of the line for ';' (line 162)
\* and the test of the buffer, the line included, for ';' agree.
C24_LineTestIsBufferTest ==
    /\ (pc \in {"loop", "done"} /\ n >= 1 /\ ~in_procedure /\ ~in_string) =>
           ~Contains(current_statement, << SEMI >>)
    /\ (pc = "loop" /\ n < Len(lines)) =>
           LET line == lines[n + 1]
           IN  (~ProcedureMode(in_procedure, line) /\ ~in_string) =>
                   (Contains(line, << SEMI >>) <=>
                    Contains(current_statement \o line \o << NL >>,
                             << SEMI >>))

\* C24 witness: the line '$$;' that ends a procedure is about to be
\* processed in normal mode while the buffer holds a ';' of the body
C24_Witness ==
    /\ pc = "loop"
    /\ n < Len(lines)
    /\ in_procedure
    /\ ~ProcedureMode(in_procedure, lines[n + 1])
    /\ Contains(current_statement, << SEMI >>)
    /\ Contains(lines[n + 1], << SEMI >>)


-----------------------------------------------------------------------------
(* execute_rollback: what is backed up and what is dropped.                 *)

\* C25: every schema that rollback_schemas drops was among the schemas that
\* create_backup backed up earlier in the run.
C25_DroppedSchemasWereBackedUp ==
    \A k \in 1..Len(rollback.dropped) :
        \E j \in 1..Len(rollback.backed_up) :
            rollback.backed_up[j] = rollback.dropped[k]

\* C26: 'Create Backup' returns False when one of its queries failed, and a
\* schema is dropped only after every query of the backup succeeded.
C26_DropOnlyAfterCompleteBackup ==
    /\ (Len(rollback.returned) >= 3 /\ ~rollback.backup_queries_ok) =>
           ~rollback.returned[3]
    /\ rollback.dropped # << >> => rollback.backup_queries_ok


\* C28: a deployment that has ended executed every step of its list, in
\* order, whatever the steps before returned, and returned False (exit
\* code 1) exactly when some step returned False.
C28_EveryStepRunsFailuresCounted ==
    /\ envdeploy.executed =
           SubSeq(envdeploy.steps, 1, Len(envdeploy.executed))
    /\ (envdeploy.pc = "exited" /\ envdeploy.env_vars_set) =>
           /\ envdeploy.executed = envdeploy.steps
           /\ (envdeploy.exit_code = 1) = (envdeploy.failed_steps # << >>)


====
